---- MODULE Spec2Model ----
(***************************************************************************)
(* A model of the SJAS resume/job matching pipeline: the orchestrator      *)
(* run_pipeline (core/pipeline.py) and the four stages it sequences        *)
(* (agents/parser_agent.py, selector_agent.py, extractor_agent.py,         *)
(* analyzer_writer_agent.py), with the schema validators and the timeout   *)
(* manager.                                                                *)
(*                                                                         *)
(* Python values are tagged records: [t |-> "null"], [t |-> "int", v |-> n]*)
(* and so on.  A Python str is a sequence of characters (one-character     *)
(* TLA+ strings) wherever the code looks inside it, and a sequence of      *)
(* larger chunks where it is only copied.  A Python dict whose type is     *)
(* known is a TLA+ function from its keys to its values.                   *)
(***************************************************************************)
EXTENDS Integers, Sequences, FiniteSets, TLC

VARIABLES
    pc,            \* position of run_pipeline
    job_query,     \* argument of run_pipeline, and of select_job
    job_map_arg,   \* the job_map argument of select_job (Null: load the registry)
    fn,            \* a function called on its own: [f, x, done, y], x the arguments,
                   \* y what it returned once done (f = "none": no such call)
    heap,          \* the objects executions reach by reference, by address
    elapsed,       \* time.time() - start_time, in seconds
    _debug,        \* run_pipeline's local _debug dict
    retry_count,   \* parse_resume's retry_count argument of the running call
    resume_json,   \* result of the PARSE stage
    url_pair,      \* <<primary_url, backup_url>> after the SELECT stage
    ex,            \* [call |-> n]: the extract_job call run_pipeline is in (0: none yet)
    job_json,      \* result of the EXTRACT stage
    an,            \* locals of the running analyze_and_write call
    unstripped,    \* the record run_pipeline built, before strip_debug
    ret,           \* what run_pipeline returned (Null before it returns)
    hist           \* observation: stages entered, checks made, delegate calls

vars == <<pc, job_query, job_map_arg, fn, heap,
          elapsed, _debug, retry_count, resume_json, url_pair, ex,
          job_json, an, unstripped, ret, hist>>

(***************************************************************************)
(* Python values                                                           *)
(***************************************************************************)
Null == [t |-> "null"]
BoolV(b) == [t |-> "bool", v |-> b]
IntV(n) == [t |-> "int", v |-> n]
StrV(s) == [t |-> "str", v |-> s]
ListV(q) == [t |-> "list", v |-> q]
DictV(d) == [t |-> "dict", v |-> d]

\* isinstance(x, str), isinstance(x, list), isinstance(x, dict);
\* isinstance(x, int) is also true of a bool
IsStr(x) == x.t = "str"
IsList(x) == x.t = "list"
IsDict(x) == x.t = "dict"
IsInt(x) == x.t \in {"int", "bool"}

\* d.get(k, default)
Get(d, k, default) == IF k \in DOMAIN d THEN d[k] ELSE default

\* the range of a sequence
Range(q) == {q[i] : i \in DOMAIN q}

\* q[:n]
Take(q, n) == SubSeq(q, 1, IF Len(q) < n THEN Len(q) ELSE n)

(***************************************************************************)
(* str operations, on sequences of characters                              *)
(***************************************************************************)
UpperChars == <<"A","B","C","D","E","F","G","H","I","J","K","L","M",
                "N","O","P","Q","R","S","T","U","V","W","X","Y","Z">>
LowerChars == <<"a","b","c","d","e","f","g","h","i","j","k","l","m",
                "n","o","p","q","r","s","t","u","v","w","x","y","z">>

LowerChar(c) ==
    IF \E i \in DOMAIN UpperChars : UpperChars[i] = c
    THEN LowerChars[CHOOSE i \in DOMAIN UpperChars : UpperChars[i] = c]
    ELSE c

\* s.lower()
StrLower(s) == [i \in DOMAIN s |-> LowerChar(s[i])]

IsSpace(c) == c \in {" ", "\t", "\n", "\r"}

\* s.strip()
StrStrip(s) ==
    LET keep == {i \in DOMAIN s : ~IsSpace(s[i])}
    IN  IF keep = {} THEN <<>>
        ELSE SubSeq(s, CHOOSE i \in keep : \A j \in keep : i <= j,
                       CHOOSE i \in keep : \A j \in keep : j <= i)

\* s.endswith(suffix)
EndsWith(s, suffix) ==
    /\ Len(suffix) <= Len(s)
    /\ SubSeq(s, Len(s) - Len(suffix) + 1, Len(s)) = suffix

\* s.startswith(prefix)
StartsWith(s, prefix) ==
    /\ Len(prefix) <= Len(s)
    /\ SubSeq(s, 1, Len(prefix)) = prefix

\* needle in hay, for two strings
IsSubstr(needle, hay) ==
    \E i \in 0..(Len(hay) - Len(needle)) :
        SubSeq(hay, i + 1, i + Len(needle)) = needle

\* re.sub(r'\.js$|\.jsx$', '', s): one trailing ".js" or ".jsx" is removed
StripJsSuffix(s) ==
    IF EndsWith(s, <<".", "j", "s">>) THEN SubSeq(s, 1, Len(s) - 3)
    ELSE IF EndsWith(s, <<".", "j", "s", "x">>) THEN SubSeq(s, 1, Len(s) - 4)
    ELSE s

IsNotSpace(c) == ~IsSpace(c)
IsNotHyphen(c) == c \notin {"-", "_"}

\* a normalization that keeps the case of the letters
NormalizeOne_keeps_case(skill) ==
    LET no_suffix == StripJsSuffix(StrStrip(skill))
        no_space == SelectSeq(no_suffix, IsNotSpace)
    IN  SelectSeq(no_space, IsNotHyphen)

\* the normalized form of one skill string (utils.py lines 35-41)
NormalizeOne(skill) ==
    LET skill_lower == StrStrip(StrLower(skill))
        no_suffix == StripJsSuffix(skill_lower)
        no_space == SelectSeq(no_suffix, IsNotSpace)
    IN  SelectSeq(no_space, IsNotHyphen)

RECURSIVE NormalizeLoop(_, _)
NormalizeLoop(skills, normalized) ==
    IF skills = <<>> THEN normalized
    ELSE LET skill == Head(skills)
             n == IF IsStr(skill) THEN NormalizeOne(skill.v) ELSE <<>>
         IN  IF ~IsStr(skill) \/ n = <<>> \/ StrV(n) \in Range(normalized)
             THEN NormalizeLoop(Tail(skills), normalized)
             ELSE NormalizeLoop(Tail(skills), Append(normalized, StrV(n)))

MAX_SKILLS == 10

\* normalize_skills(skills): skills is the content of a Python list
normalize_skills(skills) == Take(NormalizeLoop(skills, <<>>), MAX_SKILLS)

(***************************************************************************)
(* Schema validators (core/schema_validator.py).  Each is TRUE when the    *)
(* Python function returns and FALSE when it raises SchemaValidationError. *)
(***************************************************************************)
WorkEntryKeys == {"company", "role", "start", "end", "points"}

\* one item of work_history (schema_validator.py lines 83-106)
ValidWorkEntry(job) ==
    /\ IsDict(job)
    /\ DOMAIN job.v = WorkEntryKeys
    /\ IsStr(job.v["company"])
    /\ IsStr(job.v["role"])
    /\ IsStr(job.v["start"])
    /\ IsStr(job.v["end"])
    /\ IsList(job.v["points"])

ResumeKeys == {"name", "years_of_experience", "current_title",
               "skills", "education", "work_history"}

validate_resume_schema(data) ==
    /\ DOMAIN data = ResumeKeys
    /\ IsStr(data["name"])
    /\ IsInt(data["years_of_experience"])
    /\ IsStr(data["current_title"])
    /\ IsList(data["skills"])
    /\ IsList(data["education"])
    /\ IsList(data["work_history"])
    /\ \A i \in DOMAIN data["work_history"].v :
           ValidWorkEntry(data["work_history"].v[i])

JobKeys == {"job_title", "company", "skills", "responsibilities",
            "experience_level", "job_url"}

validate_job_schema(data) ==
    /\ DOMAIN data = JobKeys
    /\ IsStr(data["job_title"])
    /\ IsStr(data["company"])
    /\ IsList(data["skills"])
    /\ IsList(data["responsibilities"])
    /\ IsStr(data["experience_level"])
    /\ IsStr(data["job_url"])

FinalKeys == {"match_score", "score_breakdown", "missing_skills", "strengths",
              "how_to_improve", "optimized_summary", "cover_letter",
              "recruiter_message", "job_title", "company", "job_url"}

validate_final_output_schema(data) ==
    /\ FinalKeys \subseteq DOMAIN data
    /\ DOMAIN data \subseteq FinalKeys \cup {"_debug"}
    /\ data["match_score"] = Null \/ IsInt(data["match_score"])
    /\ IsStr(data["score_breakdown"])
    /\ IsList(data["missing_skills"])
    /\ IsList(data["strengths"])
    /\ IsList(data["how_to_improve"])
    /\ IsStr(data["optimized_summary"])
    /\ IsStr(data["cover_letter"])
    /\ IsStr(data["recruiter_message"])
    /\ IsStr(data["job_title"])
    /\ IsStr(data["company"])
    /\ IsStr(data["job_url"])
    /\ "_debug" \in DOMAIN data => IsDict(data["_debug"])

\* a strip_debug that returns its argument as it is
strip_debug_keeps(data) == data

\* strip_debug(data): a copy without the _debug key
strip_debug(data) ==
    IF "_debug" \in DOMAIN data
    THEN [k \in DOMAIN data \ {"_debug"} |-> data[k]]
    ELSE data

\* a strip_debug that deletes the key from the dict it was given
strip_debug_leaves_stripped(data) == [k \in DOMAIN data \ {"_debug"} |-> data[k]]

\* the caller's dict after strip_debug(data): the key is deleted from a
\* copy (data = data.copy(), line 282), the dict passed in is not written
strip_debug_leaves(data) == data

(***************************************************************************)
(* Resume parser (agents/parser_agent.py)                                  *)
(***************************************************************************)
\* error_message is a str; the f-string is stripped, so an empty message
\* leaves no trailing blank
_get_error_json(error_message) ==
    [error |-> StrV(IF error_message = <<>>
                    THEN <<"Resume parsing failed - please paste plain text only.">>
                    ELSE <<"Resume parsing failed - please paste plain text only.", " ">>
                         \o error_message),
     match_score |-> Null,
     missing_skills |-> ListV(<<>>),
     strengths |-> ListV(<<>>),
     how_to_improve |-> ListV(<<>>),
     optimized_summary |-> StrV(<<>>),
     cover_letter |-> StrV(<<>>),
     recruiter_message |-> StrV(<<>>),
     job_title |-> StrV(<<>>),
     company |-> StrV(<<>>),
     job_url |-> StrV(<<>>)]

Points == <<"p", "o", "i", "n", "t", "s">>

\* Does the loop over work_history raise for this item?  `"points" in job`
\* is a key test on a dict, a substring test on a str, a membership test on
\* a list and a TypeError on anything else; job["points"] then raises on a
\* str or a list (parser_agent.py lines 47-50).
WorkItemRaises(job) ==
    CASE IsDict(job) -> FALSE
      [] IsStr(job) -> IsSubstr(Points, job.v)
      [] IsList(job) -> StrV(Points) \in Range(job.v)
      [] OTHER -> TRUE

\* job["points"] = job["points"][:4], done in place on the item
MAX_POINTS == 4

\* a parser that leaves the points as the delegate gave them
LimitPoints_keeps(job) == job

\* lines 47-50, for one item of work_history
LimitPoints(job) ==
    IF IsDict(job) /\ "points" \in DOMAIN job.v /\ IsList(job.v["points"])
    THEN DictV([job.v EXCEPT !["points"] = ListV(Take(@.v, MAX_POINTS))])
    ELSE job

\* parser_agent.py lines 41-59, for a dict parsed_data whose loop did not raise
BuildResume(d) ==
    LET skills == IF "skills" \in DOMAIN d /\ IsList(d["skills"])
                  THEN ListV(normalize_skills(d["skills"].v))
                  ELSE Get(d, "skills", ListV(<<>>))
        work == IF "work_history" \in DOMAIN d /\ IsList(d["work_history"])
                THEN ListV([i \in DOMAIN d["work_history"].v |->
                               LimitPoints(d["work_history"].v[i])])
                ELSE Get(d, "work_history", ListV(<<>>))
    IN  [name |-> Get(d, "name", StrV(<<>>)),
         years_of_experience |-> Get(d, "years_of_experience", IntV(0)),
         current_title |-> Get(d, "current_title", StrV(<<>>)),
         skills |-> skills,
         education |-> Get(d, "education", ListV(<<>>)),
         work_history |-> work]

\* What one attempt of parse_resume does with the delegate's answer
\* (parser_agent.py lines 41-71): "raise" is an exception that no handler of
\* parse_resume catches, "invalid" a SchemaValidationError, "ok" a record.
ParseAttempt(parsed_data) ==
    IF ~IsDict(parsed_data) THEN [status |-> "raise"]
    ELSE LET d == parsed_data.v
         IN  IF /\ "work_history" \in DOMAIN d
                /\ IsList(d["work_history"])
                /\ \E i \in DOMAIN d["work_history"].v :
                       WorkItemRaises(d["work_history"].v[i])
             THEN [status |-> "raise"]
             ELSE IF validate_resume_schema(BuildResume(d))
                  THEN [status |-> "ok", value |-> BuildResume(d)]
                  ELSE [status |-> "invalid"]

(***************************************************************************)
(* URLs.  A URL string is the chunk "https://" followed by characters;     *)
(* urlparse gives the netloc (up to the first "/") and the path.           *)
(***************************************************************************)
HasScheme(url) == Len(url) > 0 /\ url[1] \in {"https://", "http://"}

\* the index of the first "/" after the scheme, or Len(url) + 1
PathStart(url) ==
    LET slashes == {i \in 2..Len(url) : url[i] = "/"}
    IN  IF slashes = {} THEN Len(url) + 1
        ELSE CHOOSE i \in slashes : \A j \in slashes : i <= j

\* urlparse(url).netloc
UrlNetloc(url) == IF HasScheme(url) THEN SubSeq(url, 2, PathStart(url) - 1) ELSE <<>>

\* urlparse(url).path
UrlPath(url) ==
    IF HasScheme(url) THEN SubSeq(url, PathStart(url), Len(url)) ELSE url

\* [p for p in path.split('/') if p][0], or <<>> when there is none
RECURSIVE FirstSegment(_)
FirstSegment(path) ==
    IF path = <<>> THEN <<>>
    ELSE IF Head(path) = "/" THEN FirstSegment(Tail(path))
    ELSE LET slashes == {i \in DOMAIN path : path[i] = "/"}
         IN  IF slashes = {} THEN path
             ELSE SubSeq(path, 1, (CHOOSE i \in slashes : \A j \in slashes : i <= j) - 1)

UpperChar(c) ==
    IF \E i \in DOMAIN LowerChars : LowerChars[i] = c
    THEN UpperChars[CHOOSE i \in DOMAIN LowerChars : LowerChars[i] = c]
    ELSE c

IsAlpha(c) == c \in Range(LowerChars) \cup Range(UpperChars)

\* s.title(): a letter that follows a non-letter is upper-cased, the others lower-cased
StrTitle(s) ==
    [i \in DOMAIN s |-> IF i = 1 \/ ~IsAlpha(s[i - 1])
                        THEN UpperChar(s[i]) ELSE LowerChar(s[i])]

LeverCo == <<"l", "e", "v", "e", "r", ".", "c", "o">>
GreenhouseIo == <<"g", "r", "e", "e", "n", "h", "o", "u", "s", "e", ".", "i", "o">>
AshbyhqCom == <<"a", "s", "h", "b", "y", "h", "q", ".", "c", "o", "m">>
WorkableCom == <<"w", "o", "r", "k", "a", "b", "l", "e", ".", "c", "o", "m">>

ALLOWED_DOMAINS == {LeverCo, GreenhouseIo, AshbyhqCom, WorkableCom}

\* an extractor without the allow-list
_is_allowed_domain_any(url) == TRUE

\* url is a Python str value
_is_allowed_domain(url) ==
    LET domain == StrLower(UrlNetloc(url.v))
    IN  \E allowed \in ALLOWED_DOMAINS : IsSubstr(allowed, domain)

JobsLeverCo == <<"https://", "j", "o", "b", "s", ".">> \o LeverCo

\* "https://jobs.lever.co/nava/7a315e81-41eb-40cc-bb0e-b065b7f88712"
DEFAULT_JOB_URL == StrV(JobsLeverCo \o <<"/", "n", "a", "v", "a", "/", "7", "a", "3">>)

\* bool(x) for a str or None
Truthy(x) == x # Null /\ x.v # <<>>

(***************************************************************************)
(* Job selector (agents/selector_agent.py).  A registry (job_map) is a     *)
(* sequence of entries [key, tags, urls] in the dict's iteration order.    *)
(***************************************************************************)
\* the words of s.split(), as a set
Words(s) ==
    {SubSeq(s, i, j) : <<i, j>> \in
        {w \in (DOMAIN s) \X (DOMAIN s) :
            /\ w[1] <= w[2]
            /\ \A k \in w[1]..w[2] : ~IsSpace(s[k])
            /\ (w[1] = 1 \/ IsSpace(s[w[1] - 1]))
            /\ (w[2] = Len(s) \/ IsSpace(s[w[2] + 1]))}}

Developer == <<"d", "e", "v", "e", "l", "o", "p", "e", "r">>
Engineer == <<"e", "n", "g", "i", "n", "e", "e", "r">>
Analyst == <<"a", "n", "a", "l", "y", "s", "t">>
Programmer == <<"p", "r", "o", "g", "r", "a", "m", "m", "e", "r">>
Python == <<"p", "y", "t", "h", "o", "n">>
Backend == <<"b", "a", "c", "k", "e", "n", "d">>
Data == <<"d", "a", "t", "a">>
Default == <<"d", "e", "f", "a", "u", "l", "t">>
DemoPrefix == <<"d", "e", "m", "o", ":">>

\* semantic_matches: trigger word -> categories
semantic_matches ==
    {<<Developer, {Python, Backend}>>, <<Engineer, {Data, Backend}>>,
     <<Analyst, {Data}>>, <<Programmer, {Python, Backend}>>}

SEMANTIC_BONUS == 2

\* the score of one category (selector_agent.py lines 110-130)
CategoryScore(query_words, category, tags) ==
    LET tag_words == UNION {Words(StrLower(tags[i])) : i \in DOMAIN tags}
    IN  Cardinality(query_words \cap tag_words)
        + SEMANTIC_BONUS * Cardinality({m \in semantic_matches :
                               m[1] \in query_words /\ category \in m[2]})

\* the loop of _fuzzy_match_tags over job_map.items(); the result is
\* [found |-> TRUE, category |-> c] or [found |-> FALSE] (None)
RECURSIVE FuzzyLoop(_, _, _, _)
FuzzyLoop(query_words, entries, best_match, best_score) ==
    IF entries = <<>>
    THEN IF best_score > 0 THEN best_match ELSE [found |-> FALSE]
    ELSE LET e == Head(entries)
             score == CategoryScore(query_words, e.key, e.tags)
         IN  IF e.key = Default \/ e.tags = <<>>
             THEN FuzzyLoop(query_words, Tail(entries), best_match, best_score)
             ELSE IF e.key \in query_words
             THEN [found |-> TRUE, category |-> e.key]
             ELSE IF score > best_score
             THEN FuzzyLoop(query_words, Tail(entries),
                            [found |-> TRUE, category |-> e.key], score)
             ELSE FuzzyLoop(query_words, Tail(entries), best_match, best_score)

_fuzzy_match_tags(query, job_map) ==
    FuzzyLoop(Words(query), job_map, [found |-> FALSE], 0)

\* job_map[key]; a dict built from repeated keys keeps the last value
HasKey(job_map, key) == \E i \in DOMAIN job_map : job_map[i].key = key

Lookup(job_map, key) ==
    job_map[CHOOSE i \in DOMAIN job_map :
                /\ job_map[i].key = key
                /\ \A j \in DOMAIN job_map : job_map[j].key = key => j <= i]

\* a pair derivation that leaves the backup empty when there is one URL
UrlPair_no_repeat(urls) == <<urls[1], IF Len(urls) > 1 THEN urls[2] ELSE StrV(<<>>)>>

\* primary = urls[0]; backup = urls[1] if present, else urls[0]
UrlPair(urls) == <<urls[1], IF Len(urls) > 1 THEN urls[2] ELSE urls[1]>>

\* what a call gives when an exception leaves it
Raised == <<"raise">>

\* a default lookup that subscripts job_map["default"]["urls"] without
\* looking whether there is one: KeyError or IndexError when there is none
_get_default_job_urls_unguarded(job_map) ==
    LET urls == IF HasKey(job_map, Default) THEN Lookup(job_map, Default).urls ELSE <<>>
    IN  IF urls = <<>> THEN Raised ELSE UrlPair(urls)

_get_default_job_urls(job_map) ==
    LET urls == IF HasKey(job_map, Default) THEN Lookup(job_map, Default).urls ELSE <<>>
    IN  IF urls = <<>> THEN <<StrV(<<>>), StrV(<<>>)>> ELSE UrlPair(urls)

\* a select_job without the DEMO override
select_job_no_demo(query, job_map) ==
    LET query_lower == StrStrip(StrLower(query))
        matched == _fuzzy_match_tags(query_lower, job_map)
    IN  IF HasKey(job_map, query_lower) /\ Lookup(job_map, query_lower).urls # <<>>
        THEN UrlPair(Lookup(job_map, query_lower).urls)
        ELSE IF /\ matched.found
                /\ matched.category # <<>>
                /\ Lookup(job_map, matched.category).urls # <<>>
        THEN UrlPair(Lookup(job_map, matched.category).urls)
        ELSE _get_default_job_urls(job_map)

\* select_job(job_query, job_map), job_query a str
select_job(query, job_map) ==
    LET query_lower == StrStrip(StrLower(query))
        matched == _fuzzy_match_tags(query_lower, job_map)
    IN  IF StartsWith(query_lower, DemoPrefix)
        THEN _get_default_job_urls(job_map)
        ELSE IF HasKey(job_map, query_lower) /\ Lookup(job_map, query_lower).urls # <<>>
        THEN UrlPair(Lookup(job_map, query_lower).urls)
        ELSE IF /\ matched.found
                /\ matched.category # <<>>
                /\ Lookup(job_map, matched.category).urls # <<>>
        THEN UrlPair(Lookup(job_map, matched.category).urls)
        ELSE _get_default_job_urls(job_map)

(***************************************************************************)
(* Job extractor (agents/extractor_agent.py).  The text of a fetched page  *)
(* is modelled by what the pattern searches of _parse_job_content find in  *)
(* it: [t |-> "page", title, company, skills, responsibilities, level],    *)
(* where title and company are Null when no pattern matches.               *)
(***************************************************************************)
IsPage(x) == x.t = "page"

\* _extract_job_title: the matched title, or the default
_extract_job_title(page) ==
    IF page.title # Null THEN page.title ELSE StrV(<<"Software Engineer">>)

\* _extract_company: from a lever.co URL's first path segment, else from a
\* labelled line of the text, else the default
_extract_company(page, url) ==
    IF /\ IsSubstr(LeverCo, StrLower(UrlNetloc(url.v)))
       /\ FirstSegment(UrlPath(url.v)) # <<>>
    THEN StrV(StrTitle(FirstSegment(UrlPath(url.v))))
    ELSE IF page.company # Null THEN page.company
    ELSE StrV(<<"Company">>)

MAX_JOB_SKILLS == 10
MAX_RESPONSIBILITIES == 6

_parse_job_content(page, job_url) ==
    LET job_title == _extract_job_title(page)
        company == _extract_company(page, job_url)
        result == [job_title |-> job_title,
                   company |-> company,
                   skills |-> ListV(Take(page.skills, MAX_JOB_SKILLS)),
                   responsibilities |-> ListV(Take(page.responsibilities, MAX_RESPONSIBILITIES)),
                   experience_level |-> page.level,
                   job_url |-> job_url]
    IN  IF validate_job_schema(result) THEN result
        ELSE [job_title |-> IF job_title.v # <<>> THEN job_title
                            ELSE StrV(<<"Software Engineer">>),
              company |-> IF company.v # <<>> THEN company ELSE StrV(<<"Company">>),
              skills |-> ListV(<<>>),
              responsibilities |-> ListV(<<>>),
              experience_level |-> StrV(<<>>),
              job_url |-> job_url]

\* _extract_from_url(url), given what the page fetch did: fetched is
\* [kind |-> "raise"] or [kind |-> "value", value |-> v]; a value that is
\* not a str makes re.sub raise TypeError
_extract_from_url(url, fetched) ==
    IF fetched.kind = "raise" \/ ~IsPage(fetched.value)
    THEN [status |-> "raise"]
    ELSE [status |-> "ok", value |-> _parse_job_content(fetched.value, url)]

(***************************************************************************)
(* Timeout manager (core/timeout_manager.py)                               *)
(***************************************************************************)
TIMEOUT_SECONDS == 55

\* a budget check that lets the exact budget pass
check_timeout_elapsed_strict(e) == e > TIMEOUT_SECONDS

\* check_timeout_elapsed(start_time), with e = time.time() - start_time
check_timeout_elapsed(e) == e >= TIMEOUT_SECONDS

FALLBACK_SCORE == 82

get_fallback_json ==
    [match_score |-> IntV(FALLBACK_SCORE),
     score_breakdown |-> StrV(<<"Fallback mode activated">>),
     missing_skills |-> ListV(<<>>),
     strengths |-> ListV(<<>>),
     how_to_improve |-> ListV(<<StrV(<<"Review your resume for technical skill alignment">>)>>),
     optimized_summary |-> StrV(<<"Summary unavailable due to fallback mode.">>),
     cover_letter |-> StrV(<<"Cover letter unavailable due to fallback mode.">>),
     recruiter_message |-> StrV(<<"Message unavailable due to fallback mode.">>),
     job_title |-> StrV(<<"Software Engineer">>),
     company |-> StrV(<<"Vercel">>),
     job_url |-> StrV(JobsLeverCo \o <<"/", "v", "e", "r", "c", "e", "l", "/", "x", "y", "z">>),
     _debug |-> DictV([timeout_exceeded |-> TRUE, fallback_mode |-> TRUE])]

(***************************************************************************)
(* Analyzer and writer (agents/analyzer_writer_agent.py)                   *)
(***************************************************************************)
\* the strings of a list of str values, as a set
StrSet(q) == {q[i].v : i \in DOMAIN q}

\* sep.join(items) for a list of str values
RECURSIVE JoinStr(_, _)
JoinStr(items, sep) ==
    IF items = <<>> THEN <<>>
    ELSE IF Len(items) = 1 THEN items[1].v
    ELSE items[1].v \o sep \o JoinStr(Tail(items), sep)

AllStr(q) == \A i \in DOMAIN q : IsStr(q[i])

\* an overlap measured against the skills of the resume
_calculate_skill_overlap_of_resume(resume, job) ==
    LET resume_skills == StrSet(normalize_skills(Get(resume, "skills", ListV(<<>>)).v))
        job_skills == StrSet(normalize_skills(Get(job, "skills", ListV(<<>>)).v))
    IN  IF resume_skills = {} THEN [num |-> 0, den |-> 1]
        ELSE [num |-> Cardinality(resume_skills \cap job_skills),
              den |-> Cardinality(resume_skills)]

\* _calculate_skill_overlap: the ratio as [num, den]; 0.0 is 0/1
_calculate_skill_overlap(resume, job) ==
    LET resume_skills == StrSet(normalize_skills(Get(resume, "skills", ListV(<<>>)).v))
        job_skills == StrSet(normalize_skills(Get(job, "skills", ListV(<<>>)).v))
    IN  IF job_skills = {} THEN [num |-> 0, den |-> 1]
        ELSE [num |-> Cardinality(resume_skills \cap job_skills),
              den |-> Cardinality(job_skills)]

DigitChars == <<"0", "1", "2", "3", "4", "5", "6", "7", "8", "9">>
IsDigit(c) == c \in Range(DigitChars)
DigitValue(c) == (CHOOSE i \in DOMAIN DigitChars : DigitChars[i] = c) - 1

\* int(digits)
RECURSIVE ToInt(_)
ToInt(digits) ==
    IF digits = <<>> THEN 0
    ELSE 10 * ToInt(SubSeq(digits, 1, Len(digits) - 1)) + DigitValue(digits[Len(digits)])

\* re.search(r'\d+', s).group(): the first maximal run of digits
FirstDigitRun(s) ==
    LET ds == {i \in DOMAIN s : IsDigit(s[i])}
        first == CHOOSE i \in ds : \A j \in ds : i <= j
        ends == {j \in first..Len(s) : \A k \in first..j : IsDigit(s[k])}
    IN  SubSeq(s, first, CHOOSE j \in ends : \A k \in ends : k <= j)

\* an extraction that returns the integer as it stands
Clamp_none(lo, hi, x) == x

\* max(min_value, min(max_value, score))
Clamp(lo, hi, x) == IF x < lo THEN lo ELSE IF x > hi THEN hi ELSE x

\* an llm_call_integer with a fallback integer for an answer without digits
llm_call_integer_lenient(answer, min_value, max_value) ==
    IF answer.kind = "raise" \/ ~IsStr(answer.value)
    THEN [status |-> "raise"]
    ELSE IF \A i \in DOMAIN answer.value.v : ~IsDigit(answer.value.v[i])
    THEN [status |-> "ok", value |-> min_value]
    ELSE [status |-> "ok",
          value |-> Clamp(min_value, max_value, ToInt(FirstDigitRun(answer.value.v)))]

\* llm_call_integer, given what llm_call did: answer is [kind |-> "raise"]
\* or [kind |-> "value", value |-> v]
llm_call_integer(answer, min_value, max_value) ==
    IF answer.kind = "raise" \/ ~IsStr(answer.value)
    THEN [status |-> "raise"]
    ELSE IF \A i \in DOMAIN answer.value.v : ~IsDigit(answer.value.v[i])
    THEN [status |-> "raise"]
    ELSE [status |-> "ok",
          value |-> Clamp(min_value, max_value, ToInt(FirstDigitRun(answer.value.v)))]

\* the prompt of _get_experience_score joins the work-history points and the
\* job's responsibilities: a join over a non-str raises TypeError
ExperiencePromptRaises(resume, job) ==
    \/ ~AllStr(Get(job, "responsibilities", ListV(<<>>)).v)
    \/ \E i \in DOMAIN resume["work_history"].v :
           ~AllStr(Get(resume["work_history"].v[i].v, "points", ListV(<<>>)).v)

MIN_EXPERIENCE == 0
MAX_EXPERIENCE == 10

_get_experience_score(resume, job, answer) ==
    IF ExperiencePromptRaises(resume, job) THEN [status |-> "raise"]
    ELSE llm_call_integer(answer, MIN_EXPERIENCE, MAX_EXPERIENCE)

EduKeywords ==
    {<<"b", "a", "c", "h", "e", "l", "o", "r">>, <<"m", "a", "s", "t", "e", "r">>,
     <<"b", ".", "s", ".">>, <<"m", ".", "s", ".">>,
     <<"b", "s">>, <<"m", "s">>, <<"b", "a">>, <<"m", "a">>}

\* _check_education_match, for an education list of str values
_check_education_match(resume) ==
    LET education_text == StrLower(JoinStr(Get(resume, "education", ListV(<<>>)).v, <<" ">>))
    IN  \E keyword \in EduKeywords : IsSubstr(keyword, education_text)

\* a rounding that drops the fraction
RoundHalfEven_floor(num, den) == num \div den

\* round(num / den) as Python rounds: to the nearest, a half to the even
RoundHalfEven(num, den) ==
    LET q == num \div den
        r == num % den
    IN  IF 2 * r > den THEN q + 1
        ELSE IF 2 * r < den THEN q
        ELSE IF q % 2 = 0 THEN q ELSE q + 1

SKILL_WEIGHT == 40
EXPERIENCE_WEIGHT == 40
EDUCATION_WEIGHT == 20

\* a score that gives nothing for education without a degree keyword
EducationComponent_none(edu_match) == IF edu_match THEN EDUCATION_WEIGHT ELSE 0

\* 20 * (1.0 if edu_match else 0.6)
EducationComponent(edu_match) == IF edu_match THEN EDUCATION_WEIGHT ELSE (EDUCATION_WEIGHT * 6) \div 10

\* _calculate_final_score, the overlap given as [num, den]
_calculate_final_score(overlap, experience_score, edu_match) ==
    LET tenths == 10 * SKILL_WEIGHT * overlap.num
                  + (EXPERIENCE_WEIGHT * experience_score
                     + 10 * EducationComponent(edu_match)) * overlap.den
    IN  Clamp(0, 100, RoundHalfEven(tenths, 10 * overlap.den))

\* text.count(word) >= 2: two occurrences that do not overlap
CountsTwice(word, text) ==
    \E i, j \in 0..(Len(text) - Len(word)) :
        /\ i + Len(word) <= j
        /\ SubSeq(text, i + 1, i + Len(word)) = word
        /\ SubSeq(text, j + 1, j + Len(word)) = word

RequiredTriggers ==
    {<<"r", "e", "q", "u", "i", "r", "e", "d">>,
     <<"m", "u", "s", "t", " ", "h", "a", "v", "e">>,
     <<"e", "x", "p", "e", "r", "i", "e", "n", "c", "e", " ", "w", "i", "t", "h">>,
     <<"n", "e", "e", "d">>}

\* re.search(r'(?:required|must have|experience with|need).*?<skill>', text, IGNORECASE):
\* a trigger, then the skill after it with no line break in between
IsRequired(skill, text) ==
    \E trigger \in RequiredTriggers :
        \E i \in 0..(Len(text) - Len(trigger)) :
            \E j \in (i + Len(trigger))..(Len(text) - Len(skill)) :
                /\ StrLower(SubSeq(text, i + 1, i + Len(trigger))) = trigger
                /\ StrLower(SubSeq(text, j + 1, j + Len(skill))) = StrLower(skill)
                /\ \A k \in (i + Len(trigger) + 1)..j : text[k] # "\n"

\* the skills _identify_missing_skills returns, as a set: the list's order is
\* the iteration order of a Python set
MissingSkillSet(resume, job) ==
    LET resume_skills == StrSet(normalize_skills(Get(resume, "skills", ListV(<<>>)).v))
        job_skills == StrSet(normalize_skills(Get(job, "skills", ListV(<<>>)).v))
        full_job_text == StrLower(StrLower(JoinStr(Get(job, "skills", ListV(<<>>)).v, <<" ">>))
                                  \o <<" ">>
                                  \o StrLower(JoinStr(Get(job, "responsibilities", ListV(<<>>)).v, <<" ">>)))
    IN  {skill \in job_skills \ resume_skills :
            CountsTwice(skill, full_job_text) \/ IsRequired(skill, full_job_text)}

\* the orders in which a set can be listed
Orders(S) ==
    {q \in [1..Cardinality(S) -> S] : \A i, j \in DOMAIN q : i # j => q[i] # q[j]}

\* years_of_experience as a number: a bool counts as 0 or 1
NumberOf(x) == IF x.t = "bool" THEN (IF x.v THEN 1 ELSE 0) ELSE x.v

\* overlap >= tenths / 10
AtLeastTenths(overlap, tenths) == 10 * overlap.num >= tenths * overlap.den

_generate_strengths(resume, skill_overlap, edu_match) ==
    LET years_exp == NumberOf(Get(resume, "years_of_experience", IntV(0)))
        strengths ==
            (IF AtLeastTenths(skill_overlap, 7)
             THEN <<StrV(<<"Strong technical skill alignment with job requirements">>)>>
             ELSE IF AtLeastTenths(skill_overlap, 4)
             THEN <<StrV(<<"Good technical skill foundation">>)>>
             ELSE <<>>)
            \o (IF years_exp >= 5 THEN <<StrV(<<"Extensive professional experience">>)>>
                ELSE IF years_exp >= 2 THEN <<StrV(<<"Relevant work experience">>)>>
                ELSE <<>>)
            \o (IF edu_match THEN <<StrV(<<"Relevant educational background">>)>> ELSE <<>>)
    IN  IF strengths # <<>> THEN strengths
        ELSE <<StrV(<<"Strong foundation for growth">>)>>

\* missing_skills is a sequence of strings
_generate_how_to_improve(missing_skills, skill_overlap) ==
    LET top_missing == [i \in DOMAIN Take(missing_skills, 3) |-> StrV(missing_skills[i])]
        suggestions ==
            (IF missing_skills # <<>>
             THEN <<StrV(<<"Consider learning or highlighting: ">>
                         \o JoinStr(top_missing, <<",", " ">>))>>
             ELSE <<>>)
            \o (IF ~AtLeastTenths(skill_overlap, 5)
                THEN <<StrV(<<"Focus on developing skills mentioned in the job description">>)>>
                ELSE <<>>)
    IN  IF suggestions # <<>> THEN suggestions
        ELSE <<StrV(<<"Continue building relevant experience">>)>>

\* the indexes at which a word of text.split() starts
WordStarts(s) == {i \in DOMAIN s : ~IsSpace(s[i]) /\ (i = 1 \/ IsSpace(s[i - 1]))}

\* count_words(text), text a Python value (core/utils.py lines 103-118)
count_words(text) == IF ~IsStr(text) THEN 0 ELSE Cardinality(WordStarts(text.v))

\* the part of " ".join(s.split()[:n]) that comes from s[lo..hi], when
\* before words start left of lo: [text, words], words counting the words
\* that start up to hi.  The range is halved, so that long texts do not
\* nest deeply.
RECURSIVE JoinRange(_, _, _, _, _)
JoinRange(s, lo, hi, before, n) ==
    IF lo > hi THEN [text |-> <<>>, words |-> before]
    ELSE IF lo = hi
    THEN LET starts == ~IsSpace(s[lo]) /\ (lo = 1 \/ IsSpace(s[lo - 1]))
             words == IF starts THEN before + 1 ELSE before
         IN  [text |-> IF IsSpace(s[lo]) \/ words > n THEN <<>>
                       ELSE IF starts /\ words > 1 THEN <<" ", s[lo]>>
                       ELSE <<s[lo]>>,
              words |-> words]
    ELSE LET mid == (lo + hi) \div 2
             left == JoinRange(s, lo, mid, before, n)
             right == JoinRange(s, mid + 1, hi, left.words, n)
         IN  [text |-> left.text \o right.text, words |-> right.words]

\* " ".join(s.split()[:n])
JoinFirstWords(s, n) == JoinRange(s, 1, Len(s), 0, n).text

IsTerminator(c) == c \in {".", "!", "?"}

\* s.rstrip().endswith(('.', '!', '?'))
EndsSentence(s) ==
    \E i \in DOMAIN s : IsTerminator(s[i]) /\ \A j \in (i + 1)..Len(s) : IsSpace(s[j])

COVER_LETTER_MAX_WORDS == 340
\* a cut that keeps as many words as the limit allows
COVER_LETTER_CUT_AT_MAX == COVER_LETTER_MAX_WORDS

COVER_LETTER_CUT_WORDS == 320

\* _validate_cover_letter_word_count(cover_letter), a Python value: a value
\* that is not a str counts 0 words and is returned as it is
_validate_cover_letter_word_count(cover_letter) ==
    IF count_words(cover_letter) > COVER_LETTER_MAX_WORDS
    THEN LET cut == JoinFirstWords(cover_letter.v, COVER_LETTER_CUT_WORDS)
         IN  StrV(IF EndsSentence(cut) THEN cut ELSE Append(cut, "."))
    ELSE cover_letter

\* [p.strip() for p in re.split(r'[.!?]+', s) if p.strip()], as str values
Sentences(s) ==
    LET starts == {i \in DOMAIN s :
                      ~IsTerminator(s[i]) /\ (i = 1 \/ IsTerminator(s[i - 1]))}
        PieceAt(i) ==
            LET ends == {j \in i..Len(s) : \A k \in i..j : ~IsTerminator(s[k])}
            IN  StrStrip(SubSeq(s, i, CHOOSE j \in ends : \A k \in ends : k <= j))
        full == {i \in starts : PieceAt(i) # <<>>}
    IN  [n \in 1..Cardinality(full) |->
            StrV(PieceAt(CHOOSE i \in full : Cardinality({k \in full : k <= i}) = n))]

\* the common body of _validate_recruiter_message and _validate_summary:
\* [status |-> "raise"] when re.split is given a value that is not a str
LimitSentences(text, max_sentences) ==
    IF ~IsStr(text) THEN [status |-> "raise"]
    ELSE IF Len(Sentences(text.v)) > max_sentences
    THEN [status |-> "ok",
          value |-> StrV(JoinStr(Take(Sentences(text.v), max_sentences), <<".", " ">>)
                         \o <<".">>)]
    ELSE [status |-> "ok", value |-> text]

MAX_RECRUITER_SENTENCES == 2
MAX_SUMMARY_SENTENCES == 3

_validate_recruiter_message(message) == LimitSentences(message, MAX_RECRUITER_SENTENCES)

_validate_summary(summary) == LimitSentences(summary, MAX_SUMMARY_SENTENCES)

\* _generate_score_breakdown: int(skill_overlap * 100) truncates
_generate_score_breakdown(skill_overlap, experience_score, edu_match) ==
    StrV(<<"Skills ", ToString((100 * skill_overlap.num) \div skill_overlap.den),
           "% / Experience ", ToString(experience_score), "/10 / Education ",
           IF edu_match THEN "Match" ELSE "Partial">>)

\* analyzer_writer_agent.py lines 74-93: the record analyze_and_write
\* assembles, given its locals a and the three texts after post-validation
AssembledRecord(a, job, optimized_summary, cover_letter, recruiter_message) ==
    [match_score |-> IntV(a.final_score),
     score_breakdown |-> _generate_score_breakdown(a.skill_overlap_ratio,
                             a.experience_score, a.edu_match),
     missing_skills |-> ListV([i \in DOMAIN a.missing_skills |->
                                  StrV(a.missing_skills[i])]),
     strengths |-> ListV(a.strengths),
     how_to_improve |-> ListV(a.how_to_improve),
     optimized_summary |-> optimized_summary,
     cover_letter |-> cover_letter,
     recruiter_message |-> recruiter_message,
     job_title |-> Get(job, "job_title", StrV(<<>>)),
     company |-> Get(job, "company", StrV(<<>>)),
     job_url |-> Get(job, "job_url", StrV(<<>>)),
     _debug |-> DictV([skill_overlap_ratio |-> a.skill_overlap_ratio,
                       experience_score |-> a.experience_score,
                       edu_match |-> a.edu_match])]

\* an analyzer that returns the assembled record without the schema check
BuildFinal_unchecked(a, job, optimized_summary, cover_letter, recruiter_message) ==
    AssembledRecord(a, job, optimized_summary, cover_letter, recruiter_message)

\* analyzer_writer_agent.py lines 95-114: the record analyze_and_write
\* returns, the assembled one or, when the schema check fails, a minimal one
BuildFinal(a, job, optimized_summary, cover_letter, recruiter_message) ==
    LET result == AssembledRecord(a, job, optimized_summary, cover_letter,
                                  recruiter_message)
    IN  IF validate_final_output_schema(result) THEN result
        ELSE [match_score |-> IntV(a.final_score),
              score_breakdown |-> StrV(<<>>),
              missing_skills |-> ListV(<<>>),
              strengths |-> ListV(<<>>),
              how_to_improve |-> ListV(<<>>),
              optimized_summary |-> StrV(<<>>),
              cover_letter |-> StrV(<<>>),
              recruiter_message |-> StrV(<<>>),
              job_title |-> Get(job, "job_title", StrV(<<>>)),
              company |-> Get(job, "company", StrV(<<>>)),
              job_url |-> Get(job, "job_url", StrV(<<>>)),
              _debug |-> DictV(<<>>)]

\* analyzer_writer_agent.py lines 69-114: post-validation of the three
\* texts, in the code's order, then the assembly
FinishAnalysis(a, job, summary, cover, message) ==
    LET cover_letter == _validate_cover_letter_word_count(cover)
        recruiter_message == _validate_recruiter_message(message)
        optimized_summary == _validate_summary(summary)
    IN  IF recruiter_message.status = "raise" \/ optimized_summary.status = "raise"
        THEN [status |-> "raise"]
        ELSE [status |-> "ok",
              value |-> BuildFinal(a, job, optimized_summary.value, cover_letter,
                                   recruiter_message.value)]

(***************************************************************************)
(* What the delegates may answer.  A delegate call either raises or        *)
(* returns a value: [kind |-> "raise"] or [kind |-> "value", value |-> v]. *)
(***************************************************************************)
Raises == [kind |-> "raise"]
Returns(v) == [kind |-> "value", value |-> v]

Vue == <<"v", "u", "e">>
Aws == <<"a", "w", "s">>
Git == <<"g", "i", "t">>

WorkEntry(points) ==
    DictV([company |-> StrV(<<"Tech">>), role |-> StrV(<<"Engineer">>),
           start |-> StrV(<<"2020">>), end |-> StrV(<<"2024">>),
           points |-> ListV(points)])

FivePoints == [i \in 1..(MAX_POINTS + 1) |-> StrV(<<"Point">>)]

\* raw skills with twelve normalized forms: two of them are cut
RawSkills ==
    <<StrV(<<"V", "u", "e", ".", "j", "s">>), StrV(Vue), StrV(<<" ">>), IntV(7),
      StrV(<<"G", "i", "t">>), StrV(<<"C">>), StrV(<<"R">>), StrV(<<"G", "o">>),
      StrV(<<"S", "Q", "L">>), StrV(<<"c", "s", "s">>), StrV(<<"H", "T", "M", "L">>),
      StrV(<<"R", "u", "s", "t">>), StrV(<<" ", "J", "a", "v", "a">>),
      StrV(<<"N", "o", "d", "e", " ", "J", "S">>), StrV(<<"n", "o", "-", "d", "e", "_", "j", "s">>),
      StrV(<<"P", "e", "r", "l">>)>>

\* a complete answer: raw skills to normalize, five points to cut to four
ResumeGood ==
    DictV([name |-> StrV(<<"John Doe">>),
           years_of_experience |-> IntV(5),
           current_title |-> StrV(<<"Engineer">>),
           skills |-> ListV(RawSkills),
           education |-> ListV(<<StrV(<<"B", "S">>)>>),
           work_history |-> ListV(<<WorkEntry(FivePoints)>>),
           extra |-> StrV(<<"dropped">>)])

\* an answer that leaves fields out
ResumeSparse == DictV([name |-> StrV(<<"Ann">>), skills |-> ListV(<<StrV(Aws)>>)])

\* valid for the schema, but an education entry is not a str
ResumeEduBad == DictV([name |-> StrV(<<"Bob">>), education |-> ListV(<<IntV(1)>>)])

\* valid for the schema, but a work-history point is not a str
ResumePointsBad == DictV([work_history |-> ListV(<<WorkEntry(<<IntV(1)>>)>>)])

\* schema violations
ResumeSkillsBad == DictV([skills |-> IntV(5)])
ResumeWorkStr == DictV([work_history |-> ListV(<<StrV(<<"s">>)>>)])

\* answers on which the body of parse_resume raises
ResumeWorkInt == DictV([work_history |-> ListV(<<IntV(5)>>)])
ResumeNotDict == ListV(<<>>)

ParseAnswers ==
    {Raises} \cup {Returns(v) : v \in {ResumeGood, ResumeSparse, ResumeEduBad,
                                       ResumePointsBad, ResumeSkillsBad, ResumeWorkStr,
                                       ResumeWorkInt, ResumeNotDict}}

UrlAcme == StrV(JobsLeverCo \o <<"/", "a", "c", "m", "e", "/", "1">>)
UrlGreenhouse == StrV(<<"https://", "b", "."  >> \o GreenhouseIo \o <<"/", "x">>)
UrlLinkedin == StrV(<<"https://", "l", "i", "n", "k", "e", "d", "i", "n", ".", "c", "o", "m", "/", "1">>)

Api == <<"a", "p", "i">>

RegistryA ==
    <<[key |-> Python, tags |-> <<Python>>, urls |-> <<UrlAcme, UrlGreenhouse>>],
      [key |-> Backend, tags |-> <<Backend, Api>>, urls |-> <<UrlLinkedin>>],
      [key |-> Default, tags |-> <<<<"*">>>>, urls |-> <<UrlGreenhouse>>]>>

RegistryEmptyDefault ==
    <<[key |-> Default, tags |-> <<>>, urls |-> <<>>]>>

\* what _load_job_map may do
RegistryAnswers == {Raises, Returns(RegistryA), Returns(RegistryEmptyDefault)}

\* registries for select_job called with a job_map of the caller's: an
\* exact key without URLs, a category whose name is in none of its tags, a
\* registry without the default entry
RegistryPythonNoUrls ==
    <<[key |-> Python, tags |-> <<Python>>, urls |-> <<>>],
      [key |-> Default, tags |-> <<<<"*">>>>, urls |-> <<UrlGreenhouse, UrlAcme>>]>>

RegistryNameOnly ==
    <<[key |-> Default, tags |-> <<<<"*">>>>, urls |-> <<UrlGreenhouse>>],
      [key |-> Python, tags |-> <<Api>>, urls |-> <<UrlAcme>>]>>

RegistryNoDefault ==
    <<[key |-> Python, tags |-> <<Python>>, urls |-> <<UrlAcme>>]>>

SelectRegistries ==
    {RegistryA, RegistryEmptyDefault, RegistryPythonNoUrls, RegistryNameOnly,
     RegistryNoDefault}

Jobs == <<"j", "o", "b", "s">>

SelectQueries ==
    {StrV(<<"D", "E", "M", "O", ":", " ">> \o Python),
     StrV(<<" ", "D", "e", "m", "o", ":">> \o Api),
     StrV(Python),
     StrV(<<"P", "y", "t", "h", "o", "n", " ">>),
     StrV(Api \o <<" ">> \o Developer),
     StrV(Python \o <<" ">> \o Jobs),
     StrV(Jobs),
     StrV(<<>>),
     StrV(Default),
     Null}

Queries ==
    {StrV(<<"P", "y", "t", "h", "o", "n", " ">>),
     StrV(Api \o <<" ">> \o Developer),
     StrV(<<"D", "E", "M", "O", ":", " ">> \o Python),
     Null}

PageFull ==
    [t |-> "page", title |-> StrV(<<"Backend Engineer">>), company |-> Null,
     skills |-> <<StrV(Vue), StrV(Aws)>>,
     responsibilities |-> <<StrV(<<"n", "e", "e", "d", " ">> \o Aws \o <<" ", "n", "o", "w", "!">>)>>,
     level |-> StrV(<<"Senior">>)]

PageBare ==
    [t |-> "page", title |-> Null, company |-> StrV(<<"Acme Corp">>),
     skills |-> <<>>, responsibilities |-> <<>>, level |-> StrV(<<>>)]

\* what the page fetch may do: raise, or return the text of a page
FetchAnswers == {Raises, Returns(PageFull), Returns(PageBare)}

\* what llm_call may answer to the experience prompt
ScoreAnswers ==
    {Raises, Returns(Null), Returns(StrV(<<"n", "o", "n", "e">>)),
     Returns(StrV(<<"S", ":", " ", "1", "2", "/", "1", "0">>))}

FourSentences == <<"a", ".", " ", "b", "!", " ", "c", "?", " ", "d", ".">>

\* what llm_call may answer to a text prompt
TextAnswers == {Raises, Returns(Null), Returns(StrV(FourSentences))}

(***************************************************************************)
(* The orchestrator (core/pipeline.py)                                     *)
(***************************************************************************)
\* d[k] = v on a dict
Put(d, k, v) == [x \in DOMAIN d \cup {k} |-> IF x = k THEN v ELSE d[x]]

\* a.update(b)
Update(a, b) == [x \in DOMAIN a \cup DOMAIN b |-> IF x \in DOMAIN b THEN b[x] ELSE a[x]]

\* _get_timeout_result(_debug): the changed _debug, the record before
\* strip_debug and the record returned
_get_timeout_result(d) ==
    LET marked == Put(Put(d, "timeout_exceeded", TRUE),
                      "total_time_ms", TIMEOUT_SECONDS * 1000)
        result == Put(get_fallback_json, "_debug", DictV(marked))
    IN  [debug |-> marked, unstripped |-> result, ret |-> strip_debug(result)]

\* a pipeline that answers a failed extraction with the parser's error record
_get_extraction_error_result_as_error(d) ==
    LET marked == Put(d, "extraction_failed", TRUE)
        result == _get_error_json(<<"exception text">>)
    IN  [debug |-> marked, unstripped |-> result, ret |-> result]

_get_extraction_error_result(d) ==
    LET marked == Put(d, "extraction_failed", TRUE)
        result == Put(get_fallback_json, "_debug", DictV(marked))
    IN  [debug |-> marked, unstripped |-> result, ret |-> strip_debug(result)]

\* a pipeline that has no default pair to substitute
_get_default_urls_empty == <<StrV(<<>>), StrV(<<>>)>>

_get_default_urls == <<DEFAULT_JOB_URL, DEFAULT_JOB_URL>>

\* run_pipeline without the handler around analyze_and_write
RunPipelineCatchesButAnalyze(site) == site # "analyze"

\* Is an exception raised at this place of run_pipeline caught by one of its
\* handlers?  Every stage lies inside the outer try block (lines 46-118).
RunPipelineCatches(site) == TRUE

\* readings of the wall clock around the budget
ClockReadings == {0, TIMEOUT_SECONDS - 1, TIMEOUT_SECONDS}

Stages == <<"PARSE", "SELECT", "EXTRACT", "ANALYZE">>

\* a pipeline that also reads the clock between the calls of ANALYZE
CheckedStage_preemptive ==
    [check_parse |-> "PARSE", check_select |-> "SELECT",
     check_extract |-> "EXTRACT", check_analyze |-> "ANALYZE", summary |-> "ANALYZE"]

\* the stage a boundary check guards, and where the stage starts
CheckedStage ==
    [check_parse |-> "PARSE", check_select |-> "SELECT",
     check_extract |-> "EXTRACT", check_analyze |-> "ANALYZE"]

\* a pipeline that starts EXTRACT where SELECT belongs and the reverse
StageEntrySwapped ==
    [PARSE |-> "parse", SELECT |-> "extract", EXTRACT |-> "select", ANALYZE |-> "analyze"]

StageEntry ==
    [PARSE |-> "parse", SELECT |-> "select", EXTRACT |-> "extract", ANALYZE |-> "analyze"]

Running == pc \notin {"returned", "raised"}

\* events of the observation log: a budget check and whether it let the
\* pipeline go on, the entry into a stage, and a delegate call with its argument, what
\* came of the attempt it belongs to (out), and for a page fetch the
\* extract_job call (n) and candidate (at) it was made for
CheckEvent(stage, exhausted) ==
    [e |-> "check", x |-> stage, ok |-> ~exhausted, arg |-> Null, out |-> "",
     at |-> "", n |-> 0]

EnterEvent(stage) ==
    [e |-> "enter", x |-> stage, ok |-> TRUE, arg |-> Null, out |-> "", at |-> "", n |-> 0]

CallEvent(delegate, arg, answer, out) ==
    [e |-> "call", x |-> delegate, ok |-> answer.kind = "value", arg |-> arg,
     out |-> out, at |-> "", n |-> 0]

FetchEvent(url, answer, out, at, n) ==
    [e |-> "call", x |-> "load_web_page", ok |-> answer.kind = "value", arg |-> url,
     out |-> out, at |-> at, n |-> n]

\* an exception leaves the callee x (for extract_job: its call n)
RaiseEvent(x, n) ==
    [e |-> "raise", x |-> x, ok |-> FALSE, arg |-> Null, out |-> "", at |-> "", n |-> n]

\* the callee x returns value
ReturnEvent(x, value) ==
    [e |-> "return", x |-> x, ok |-> TRUE, arg |-> value, out |-> "", at |-> "", n |-> 0]

NoCall == [call |-> 0]

NoFn == [f |-> "none", x |-> Null, done |-> FALSE, y |-> Null]

\* no object is reached by reference
NoHeap == <<>>

Init ==
    /\ pc = "check_parse"
    /\ job_query \in Queries
    /\ job_map_arg = Null
    /\ fn = NoFn
    /\ heap = NoHeap
    /\ elapsed = 0
    /\ _debug = [parser_attempts |-> 0, job_url_used |-> <<>>, total_time_ms |-> 0]
    /\ retry_count = 0
    /\ resume_json = Null
    /\ url_pair = <<Null, Null>>
    /\ ex = NoCall
    /\ job_json = Null
    /\ an = Null
    /\ unstripped = Null
    /\ ret = Null
    /\ hist = <<>>

\* the return statement: r is [debug, unstripped, ret]
Return(r, events) ==
    /\ pc' = "returned"
    /\ _debug' = r.debug
    /\ unstripped' = r.unstripped
    /\ ret' = r.ret
    /\ hist' = hist \o events

\* an exception leaves run_pipeline
Escape(events) ==
    /\ pc' = "raised"
    /\ hist' = hist \o events
    /\ UNCHANGED <<_debug, unstripped, ret>>

\* wall-clock time passes between any two steps
Tick ==
    /\ Running
    /\ \E t \in ClockReadings : t > elapsed /\ elapsed' = t
    /\ UNCHANGED <<pc, job_query, job_map_arg, fn, heap, _debug, retry_count, resume_json, url_pair, ex,
                   job_json, an, unstripped, ret, hist>>

\* pipeline.py lines 48-49, 65-66, 77-78, 95-96
CheckTimeout ==
    /\ pc \in DOMAIN CheckedStage
    /\ LET stage == CheckedStage[pc]
       IN  IF check_timeout_elapsed(elapsed)
           THEN Return(_get_timeout_result(_debug), <<CheckEvent(stage, TRUE)>>)
           ELSE /\ pc' = StageEntry[stage]
                /\ hist' = hist \o <<CheckEvent(stage, FALSE), EnterEvent(stage)>>
                /\ UNCHANGED <<_debug, unstripped, ret>>
    /\ UNCHANGED <<job_query, job_map_arg, fn, heap, elapsed, retry_count, resume_json, url_pair, ex,
                   job_json, an>>

\* a parser that allows itself two retries
MAX_RETRIES_TWO == 1 + 1

\* the retries parse_resume allows itself: "if retry_count < 1"
MAX_RETRIES == 1

\* a parser in which a schema violation has a retry of its own
MayRetry_schema_apart(status, count) ==
    IF status = "invalid" THEN count < MAX_RETRIES + 1 ELSE count < MAX_RETRIES

\* "if retry_count < 1" in the handler of a delegate failure (status
\* "failed", line 35) and in the handler of a schema violation (status
\* "invalid", line 66): the same count and the same limit
MayRetry(status, count) == count < MAX_RETRIES

\* a pipeline that does not look for the error field
IsErrorJsonNever(r) == FALSE

\* pipeline.py line 56: "error" in resume_json
IsErrorJson(r) == "error" \in DOMAIN r

\* pipeline.py lines 52-57, once parse_resume has returned r
ParseReturns(r, events) ==
    /\ resume_json' = r
    /\ IF IsErrorJson(r)
       THEN Return([debug |-> Put(_debug, "parser_attempts", 1),
                    unstripped |-> r, ret |-> r], events)
       ELSE /\ _debug' = Put(_debug, "parser_attempts", 1)
            /\ pc' = "check_select"
            /\ hist' = hist \o events
            /\ UNCHANGED <<unstripped, ret>>

\* One attempt of parse_resume (parser_agent.py lines 31-71) and, when the
\* call ends, pipeline.py lines 52-62.
ParseStep ==
    /\ pc = "parse"
    /\ \E answer \in ParseAnswers :
        LET attempt == IF answer.kind = "raise" THEN [status |-> "failed"]
                       ELSE ParseAttempt(answer.value)
            call == <<CallEvent("generate_json",
                                IF answer.kind = "value" THEN answer.value ELSE Null,
                                answer, attempt.status)>>
        IN  CASE attempt.status = "ok" ->
                   /\ ParseReturns(attempt.value, call)
                   /\ UNCHANGED retry_count
              [] attempt.status = "raise" ->
                   \* no handler of parse_resume catches it: line 59 does
                   /\ IF RunPipelineCatches("parse")
                      THEN LET r == _get_error_json(<<"exception text">>)
                           IN  Return([debug |-> _debug, unstripped |-> r, ret |-> r], call)
                      ELSE Escape(call)
                   /\ UNCHANGED <<retry_count, resume_json>>
              [] attempt.status \in {"failed", "invalid"}
                 /\ MayRetry(attempt.status, retry_count) ->
                   /\ retry_count' = retry_count + 1
                   /\ hist' = hist \o call
                   /\ UNCHANGED <<pc, _debug, resume_json, unstripped, ret>>
              [] attempt.status \in {"failed", "invalid"}
                 /\ ~MayRetry(attempt.status, retry_count) ->
                   /\ ParseReturns(_get_error_json(
                                      IF attempt.status = "failed" THEN <<"exception text">>
                                      ELSE <<"Schema validation failed: ", "exception text">>),
                                   call)
                   /\ UNCHANGED retry_count
    /\ UNCHANGED <<job_query, job_map_arg, fn, heap, elapsed, url_pair, ex, job_json, an>>

\* pipeline.py lines 68-74: select_job loads the registry and selects; any
\* exception gives the default pair
SelectStep ==
    /\ pc = "select"
    /\ \E answer \in RegistryAnswers :
        LET raises == answer.kind = "raise" \/ ~IsStr(job_query)
        IN  /\ url_pair' = IF raises THEN _get_default_urls
                           ELSE select_job(job_query.v, answer.value)
            /\ _debug' = Put(_debug, "job_url_used",
                             IF raises THEN <<"default_fallback">> ELSE <<"primary">>)
            /\ hist' = Append(hist, CallEvent("registry", Null, answer,
                                              IF raises THEN "raise" ELSE "ok"))
    /\ pc' = "check_extract"
    /\ UNCHANGED <<job_query, job_map_arg, fn, heap, elapsed, retry_count, resume_json, ex, job_json, an,
                   unstripped, ret>>

\* a second extract_job call that is given the selected pair once more
ExtractArgs_same_pair(n) == url_pair

\* the arguments of extract_job call n: line 81 passes the selected pair,
\* line 88 the first default URL and no backup
ExtractArgs(n) == IF n = 2 THEN <<_get_default_urls[1], Null>> ELSE url_pair

\* an extract_job without the handler around the primary attempt
extract_job_swallows_backup_only(candidate) == candidate = "backup"

\* extract_job's own handlers (lines 59 and 68) cover the primary and the
\* backup attempt; the attempt on the default URL (line 72) has none
extract_job_swallows(candidate) == candidate \in {"primary", "backup"}

\* extract_job returns job: pipeline.py goes on to the ANALYZE boundary
ExtractReturns(n, job, events) ==
    /\ job_json' = job
    /\ _debug' = IF n = 2 THEN Put(_debug, "job_url_used", <<"default">>) ELSE _debug
    /\ pc' = "check_analyze"
    /\ ex' = [call |-> n]
    /\ hist' = hist \o events
    /\ UNCHANGED <<unstripped, ret>>

\* extract_job call n raises: lines 85-92
ExtractRaises(n, events) ==
    LET log == Append(events, RaiseEvent("extract_job", n))
    IN  /\ IF n = 1
           THEN IF RunPipelineCatches("extract")
                THEN /\ pc' = "extract"
                     /\ ex' = [call |-> 2]
                     /\ hist' = hist \o log
                     /\ UNCHANGED <<_debug, unstripped, ret>>
                ELSE Escape(log) /\ ex' = [call |-> n]
           ELSE /\ IF RunPipelineCatches("extract_default")
                   THEN Return(_get_extraction_error_result(_debug), log)
                   ELSE Escape(log)
                /\ ex' = [call |-> n]
        /\ UNCHANGED job_json

\* one attempt of extract_job call n on a candidate: skipped without a fetch
\* when at is guarded (lines 54, 63) and the URL is empty or not of an
\* allowed host; a failure moves on to next when it is swallowed
ExtractAttempt(n, at, url, next) ==
    IF at = "default" \/ (Truthy(url) /\ _is_allowed_domain(url))
    THEN \E fetched \in FetchAnswers :
            LET result == _extract_from_url(url, fetched)
                call == <<FetchEvent(url, fetched, result.status, at, n)>>
            IN  IF result.status = "ok"
                THEN ExtractReturns(n, result.value, call)
                ELSE IF extract_job_swallows(at)
                THEN /\ pc' = next
                     /\ ex' = [call |-> n]
                     /\ hist' = hist \o call
                     /\ UNCHANGED <<_debug, job_json, unstripped, ret>>
                ELSE ExtractRaises(n, call)
    ELSE /\ pc' = next
         /\ ex' = [call |-> n]
         /\ UNCHANGED <<_debug, job_json, unstripped, ret, hist>>

\* extractor_agent.py lines 54-60
ExtractPrimary ==
    /\ pc = "extract"
    /\ LET n == IF ex.call = 0 THEN 1 ELSE ex.call
       IN  ExtractAttempt(n, "primary", ExtractArgs(n)[1], "extract_backup")
    /\ UNCHANGED <<job_query, job_map_arg, fn, heap, elapsed, retry_count, resume_json, url_pair, an>>

\* extractor_agent.py lines 63-69
ExtractBackup ==
    /\ pc = "extract_backup"
    /\ ExtractAttempt(ex.call, "backup", ExtractArgs(ex.call)[2], "extract_default")
    /\ UNCHANGED <<job_query, job_map_arg, fn, heap, elapsed, retry_count, resume_json, url_pair, an>>

\* extractor_agent.py line 72, and pipeline.py lines 85-92 when it raises
ExtractDefault ==
    /\ pc = "extract_default"
    /\ ExtractAttempt(ex.call, "default", DEFAULT_JOB_URL, "extract_default")
    /\ UNCHANGED <<job_query, job_map_arg, fn, heap, elapsed, retry_count, resume_json, url_pair, an>>

\* analyze_and_write raised: pipeline.py lines 100-102
AnalyzeRaises(events) ==
    LET log == Append(events, RaiseEvent("analyze_and_write", 0))
    IN  IF RunPipelineCatches("analyze")
        THEN Return(_get_timeout_result(_debug), log)
        ELSE Escape(log)

\* analyzer_writer_agent.py lines 44-62: the scores and the lists
AnalyzeScore ==
    /\ pc = "analyze"
    /\ IF ExperiencePromptRaises(resume_json, job_json)
       THEN AnalyzeRaises(<<>>) /\ UNCHANGED an
       ELSE \E answer \in ScoreAnswers :
              LET score == _get_experience_score(resume_json, job_json, answer)
                  call == <<CallEvent("generate_text",
                                      IF answer.kind = "value" THEN answer.value ELSE Null,
                                      answer, score.status)>>
              IN  IF score.status = "raise" \/ ~AllStr(resume_json["education"].v)
                  THEN AnalyzeRaises(call) /\ UNCHANGED an
                  ELSE \E missing \in Orders(MissingSkillSet(resume_json, job_json)) :
                         LET overlap == _calculate_skill_overlap(resume_json, job_json)
                             edu_match == _check_education_match(resume_json)
                         IN  /\ an' = [final_score |->
                                          _calculate_final_score(overlap, score.value, edu_match),
                                       skill_overlap_ratio |-> overlap,
                                       experience_score |-> score.value,
                                       edu_match |-> edu_match,
                                       missing_skills |-> missing,
                                       strengths |->
                                          _generate_strengths(resume_json, overlap, edu_match),
                                       how_to_improve |->
                                          _generate_how_to_improve(missing, overlap)]
                             /\ pc' = "summary"
                             /\ hist' = hist \o call
                             /\ UNCHANGED <<_debug, unstripped, ret>>
    /\ UNCHANGED <<job_query, job_map_arg, fn, heap, elapsed, retry_count, resume_json, url_pair, ex, job_json>>

\* one of the three text generations (lines 65-67): the answer is kept in
\* the locals of analyze_and_write under the name field
GenerateText(field, next) ==
    /\ \E answer \in TextAnswers :
        LET call == <<CallEvent("generate_text", Null, answer, answer.kind)>>
        IN  IF answer.kind = "raise"
            THEN AnalyzeRaises(call) /\ UNCHANGED an
            ELSE /\ an' = Put(an, field, answer.value)
                 /\ pc' = next
                 /\ hist' = hist \o call
                 /\ UNCHANGED <<_debug, unstripped, ret>>
    /\ UNCHANGED <<job_query, job_map_arg, fn, heap, elapsed, retry_count, resume_json, url_pair, ex, job_json>>

AnalyzeSummary == pc = "summary" /\ GenerateText("optimized_summary", "cover_letter")

AnalyzeCover == pc = "cover_letter" /\ GenerateText("cover_letter", "recruiter_message")

\* the last generation (line 67), the post-validation and assembly (lines
\* 70-114), and pipeline.py lines 104-114
AnalyzeRecruiter ==
    /\ pc = "recruiter_message"
    /\ \E answer \in TextAnswers :
        LET call == <<CallEvent("generate_text", Null, answer, answer.kind)>>
            result == FinishAnalysis(an, job_json, an["optimized_summary"],
                                     an["cover_letter"], answer.value)
        IN  IF answer.kind = "raise" \/ result.status = "raise"
            THEN AnalyzeRaises(call) /\ UNCHANGED an
            ELSE LET final_debug == Put(_debug, "total_time_ms", elapsed * 1000)
                     merged == Put(result.value, "_debug",
                                   DictV(IF result.value["_debug"].v = <<>> THEN final_debug
                                         ELSE Update(result.value["_debug"].v, final_debug)))
                 IN  /\ an' = Put(an, "recruiter_message", answer.value)
                     /\ Return([debug |-> final_debug, unstripped |-> merged,
                                ret |-> strip_debug(merged)], call)
    /\ UNCHANGED <<job_query, job_map_arg, fn, heap, elapsed, retry_count, resume_json, url_pair, ex, job_json>>

Next ==
    \/ Tick
    \/ CheckTimeout
    \/ ParseStep
    \/ SelectStep
    \/ ExtractPrimary
    \/ ExtractBackup
    \/ ExtractDefault
    \/ AnalyzeScore
    \/ AnalyzeSummary
    \/ AnalyzeCover
    \/ AnalyzeRecruiter

Spec == Init /\ [][Next]_vars
\* run_pipeline is one sequential call: as long as a step is left, a step
\* is taken (every delegate call comes back, with an answer or an exception)
LiveSpec == Spec /\ WF_vars(Next)


(***************************************************************************)
(* select_job called on its own, with a job_map of the caller's            *)
(* (selector_agent.py lines 11-57): the arguments are drawn from the       *)
(* sample queries and registries, and the call is made MaxSelectCalls      *)
(* times on the same arguments.                                            *)
(***************************************************************************)
MaxSelectCalls == 2

SelectInit ==
    /\ pc = "select_job"
    /\ job_query \in SelectQueries
    /\ job_map_arg \in SelectRegistries
    /\ fn = NoFn
    /\ heap = NoHeap
    /\ elapsed = 0
    /\ _debug = [parser_attempts |-> 0, job_url_used |-> <<>>, total_time_ms |-> 0]
    /\ retry_count = 0
    /\ resume_json = Null
    /\ url_pair = <<Null, Null>>
    /\ ex = NoCall
    /\ job_json = Null
    /\ an = Null
    /\ unstripped = Null
    /\ ret = Null
    /\ hist = <<>>

\* one call select_job(job_query, job_map): job_query.lower() raises
\* AttributeError when job_query is not a str
SelectJobCall ==
    /\ pc = "select_job"
    /\ Len(hist) < MaxSelectCalls
    /\ LET result == IF IsStr(job_query) THEN select_job(job_query.v, job_map_arg)
                     ELSE Raised
       IN  IF result = Raised
           THEN /\ hist' = Append(hist, RaiseEvent("select_job", 0))
                /\ UNCHANGED url_pair
           ELSE /\ hist' = Append(hist, ReturnEvent("select_job", ListV(result)))
                /\ url_pair' = result
    /\ UNCHANGED <<pc, job_query, job_map_arg, fn, heap, elapsed, _debug, retry_count, resume_json,
                   ex, job_json, an, unstripped, ret>>

SelectNext == SelectJobCall

SelectSpec == SelectInit /\ [][SelectNext]_vars

(***************************************************************************)
(* The helper functions called on their own: the arguments are drawn from  *)
(* bounded sets, and one action per function applies it.                   *)
(***************************************************************************)
\* a call that has not been made yet
Pending(f, x) == [f |-> f, x |-> x, done |-> FALSE, y |-> Null]

\* (skill_overlap_ratio as [num, den], experience_score, edu_match): the
\* job has at most MAX_SKILLS normalized skills, and llm_call_integer
\* clamps the experience score
FinalScoreArgs ==
    {[overlap |-> [num |-> k, den |-> n], experience_score |-> e, edu_match |-> b] :
        k \in 0..MAX_SKILLS, n \in 1..MAX_SKILLS,
        e \in MIN_EXPERIENCE..MAX_EXPERIENCE, b \in BOOLEAN}

React == <<"R", "e", "a", "c", "t">>

\* skill lists: spelling variants of one skill, spaces and hyphens, items
\* that normalize to nothing, and more distinct skills than MAX_SKILLS
SkillLists ==
    {<<>>,
     <<StrV(React), StrV(StrLower(React)), StrV(React \o <<".", "j", "s">>)>>,
     <<StrV(<<"N", "o", "d", "e", " ", "J", "S">>), StrV(Python), StrV(<<" ", "a", "w", "s">>)>>,
     <<StrV(<<" ">>), IntV(5), StrV(<<"-", "_">>)>>,
     <<StrV(Python), StrV(<<"n", "o", "d", "e", "-", "j", "s">>), StrV(StrLower(React))>>,
     <<StrV(<<"v", "u", "e", "\t", "x">>), StrV(<<"A", "W", "S">>), StrV(<<"v", "u", "e", "x">>)>>,
     [i \in 1..(MAX_SKILLS + 2) |-> StrV(<<"s", DigitChars[(i % 10) + 1], DigitChars[(i \div 10) + 1]>>)],
     [i \in 1..(MAX_SKILLS + 1) |->
         IF i = 1 THEN StrV(Python)
         ELSE StrV(<<"s", DigitChars[(i % 10) + 1], DigitChars[(i \div 10) + 1]>>)]}

\* records with a skills list, and one without the key
SkillRecords == {[skills |-> ListV(q)] : q \in SkillLists} \cup {[name |-> StrV(<<>>)]}

\* records with and without a _debug entry
DebugRecords ==
    {get_fallback_json,
     [k \in DOMAIN get_fallback_json \ {"_debug"} |-> get_fallback_json[k]],
     [match_score |-> IntV(85), job_title |-> StrV(<<"Engineer">>),
      _debug |-> DictV([parser_attempts |-> 1, total_time_ms |-> 5000])],
     [match_score |-> IntV(85), job_title |-> StrV(<<"Engineer">>)],
     [_debug |-> DictV(<<>>)],
     [error |-> StrV(<<"x">>), match_score |-> Null, _debug |-> Null]}

\* a text of n words of three characters, separated by a blank or a line
\* break; with marked, word 320 ends in "!"
LetterOf(n, marked) ==
    [p \in 1..(4 * n - 1) |->
        LET k == ((p - 1) \div 4) + 1
            r == (p - 1) % 4
        IN  CASE r = 0 -> "w"
              [] r = 1 -> DigitChars[(k % 10) + 1]
              [] r = 2 -> IF marked /\ k = 320 THEN "!" ELSE "x"
              [] OTHER -> IF k % 7 = 0 THEN "\n" ELSE " "]

\* cover letters around the limits of 280, 320 and 340 words
CoverLetters ==
    {StrV(LetterOf(n, marked)) :
        n \in {0, 1, 279, 300, 320, 340, 341, 400}, marked \in BOOLEAN}

\* answers of the delegate that differ in years_of_experience only
YearsAnswers ==
    {DictV([name |-> StrV(<<"Ann">>), years_of_experience |-> y]) :
        y \in {IntV(0 - 3), IntV(0), IntV(5), BoolV(TRUE), BoolV(FALSE),
               StrV(<<"5">>), Null}}

\* a registry with a category that has no tags, before one that has
RegistryEmptyTags ==
    <<[key |-> Python, tags |-> <<>>, urls |-> <<UrlAcme>>],
      [key |-> Backend, tags |-> <<Backend, Api>>, urls |-> <<UrlLinkedin>>],
      [key |-> Default, tags |-> <<<<"*">>>>, urls |-> <<UrlGreenhouse>>]>>

\* a registry in which two categories share a tag word
RegistrySharedTag ==
    <<[key |-> Default, tags |-> <<<<"*">>>>, urls |-> <<UrlGreenhouse>>],
      [key |-> Data, tags |-> <<<<"S", "Q", "L", " ">> \o Api>>, urls |-> <<UrlAcme>>],
      [key |-> Backend, tags |-> <<Api, Backend \o <<" ">> \o Jobs>>, urls |-> <<UrlLinkedin>>]>>

FuzzyRegistries ==
    {RegistryA, RegistryNameOnly, RegistryEmptyTags, RegistrySharedTag, RegistryEmptyDefault}

\* lowercase queries, as select_job passes them: category names, tag
\* words, semantic trigger words, and words that are none of these
FuzzyQueries ==
    {<<>>, Python, Jobs, Developer, Api, Api \o <<" ">> \o Developer,
     Python \o <<" ">> \o Jobs, Backend \o <<"\t">> \o Python, Api \o <<" ">> \o Jobs,
     Engineer \o <<" ">> \o Developer, Analyst \o <<" ">> \o Api \o <<" ">> \o Api,
     <<"a", "p", "i", "s">>, Default}

\* what llm_call may do on the experience prompt: raise, answer None,
\* answer without a digit, with one or several runs of digits
IntegerAnswers ==
    {Raises, Returns(Null)}
    \cup {Returns(StrV(s)) :
             s \in {<<>>, <<"n", "o", "n", "e">>, <<"0">>, <<"7">>, <<"1", "0">>,
                    <<"1", "1">>, <<"0", "0", "7">>, <<"1", "0", "0">>, <<"-", "5">>,
                    <<"3", ".", "7">>, <<"a", "9", "b", "1", "0">>,
                    <<"S", ":", " ", "1", "2", "/", "1", "0">>, <<" ", "0", "1", "2", "\n">>}}

\* skills whose normalized form still ends in ".js": a suffix written
\* twice, and a suffix that appears once the blank is removed
SuffixSkillLists ==
    {<<StrV(<<"V", "u", "e", ".", "j", "s", ".", "j", "s">>), StrV(Vue)>>,
     <<StrV(<<"N", "o", "d", "e", ".", " ", "j", "s">>)>>,
     <<StrV(<<"x", ".", "j", "_", "s">>), StrV(<<"x">>)>>}

FnCalls ==
    {Pending("_calculate_final_score", x) :
        x \in {a \in FinalScoreArgs : a.overlap.num <= a.overlap.den}}
    \cup {Pending("_calculate_skill_overlap", [resume |-> r, job |-> j]) :
             r \in SkillRecords, j \in SkillRecords}
    \cup {Pending("normalize_skills", x) :
             x \in {ListV(q) : q \in SkillLists \cup SuffixSkillLists} \cup {Null}}
    \cup {Pending("strip_debug", x) : x \in DebugRecords}
    \cup {Pending("_validate_cover_letter_word_count", x) : x \in CoverLetters}
    \cup {Pending("parse_resume", x) : x \in YearsAnswers \cup {ResumeSparse}}
    \cup {Pending("llm_call_integer", x) : x \in IntegerAnswers}
    \cup {Pending("_fuzzy_match_tags", [query |-> q, job_map |-> r]) :
             q \in FuzzyQueries, r \in FuzzyRegistries}

FnInit ==
    /\ pc = "call"
    /\ fn \in FnCalls
    /\ heap = NoHeap
    /\ job_query = Null
    /\ job_map_arg = Null
    /\ elapsed = 0
    /\ _debug = [parser_attempts |-> 0, job_url_used |-> <<>>, total_time_ms |-> 0]
    /\ retry_count = 0
    /\ resume_json = Null
    /\ url_pair = <<Null, Null>>
    /\ ex = NoCall
    /\ job_json = Null
    /\ an = Null
    /\ unstripped = Null
    /\ ret = Null
    /\ hist = <<>>

\* the call of f returns y
FnReturns(f, y) ==
    /\ pc = "call"
    /\ fn.f = f /\ ~fn.done
    /\ fn' = [fn EXCEPT !.done = TRUE, !.y = y]
    /\ UNCHANGED <<pc, job_query, job_map_arg, heap, elapsed, _debug, retry_count, resume_json,
                   url_pair, ex, job_json, an, unstripped, ret, hist>>

CallFinalScore ==
    FnReturns("_calculate_final_score",
              _calculate_final_score(fn.x.overlap, fn.x.experience_score, fn.x.edu_match))

CallSkillOverlap ==
    FnReturns("_calculate_skill_overlap", _calculate_skill_overlap(fn.x.resume, fn.x.job))

\* utils.py lines 24-25: "if not skills: return []" covers None
CallNormalizeSkills ==
    FnReturns("normalize_skills",
              ListV(IF fn.x = Null THEN <<>> ELSE normalize_skills(fn.x.v)))

\* strip_debug(data), and strip_debug on what it returned: y holds both
\* results, x the caller's dict after the first call
CallStripDebug ==
    /\ pc = "call"
    /\ fn.f = "strip_debug" /\ ~fn.done
    /\ fn' = [fn EXCEPT !.done = TRUE,
                        !.x = strip_debug_leaves(fn.x),
                        !.y = [once |-> strip_debug(fn.x),
                               twice |-> strip_debug(strip_debug(fn.x))]]
    /\ hist' = <<ReturnEvent("strip_debug", DictV(fn.x))>>
    /\ UNCHANGED <<pc, job_query, job_map_arg, heap, elapsed, _debug, retry_count, resume_json,
                   url_pair, ex, job_json, an, unstripped, ret>>

CallValidateCoverLetter ==
    FnReturns("_validate_cover_letter_word_count", _validate_cover_letter_word_count(fn.x))

\* one attempt of parse_resume on the delegate's answer (parser_agent.py
\* lines 41-71)
CallParseAttempt == FnReturns("parse_resume", ParseAttempt(fn.x))

CallFuzzyMatch ==
    FnReturns("_fuzzy_match_tags", _fuzzy_match_tags(fn.x.query, fn.x.job_map))

\* llm_call_integer(prompt, min_value=0, max_value=10), as
\* _get_experience_score calls it (analyzer_writer_agent.py line 167)
CallLlmInteger ==
    FnReturns("llm_call_integer", llm_call_integer(fn.x, MIN_EXPERIENCE, MAX_EXPERIENCE))

FnNext ==
    \/ CallFinalScore
    \/ CallValidateCoverLetter
    \/ CallStripDebug
    \/ CallNormalizeSkills
    \/ CallSkillOverlap
    \/ CallParseAttempt
    \/ CallFuzzyMatch
    \/ CallLlmInteger




FnSpec == FnInit /\ [][FnNext]_vars

(***************************************************************************)
(* Executions of run_pipeline side by side (pipeline.py lines 19-138).     *)
(* Every local of run_pipeline holds one value per execution; a dict an    *)
(* execution reaches by reference is a cell of heap; a step of one         *)
(* execution is a stage with the budget check before it, or the strip of   *)
(* the record it built.  The delegates answer each execution on its own.   *)
(***************************************************************************)
NumExecs == 2

Execs == 1..NumExecs

\* an address: the execution whose call made the object (0: the module or
\* a file), and the name the code gives it
At(p, obj) == [by |-> p, obj |-> obj]

\* a reference held in a dict
Ref(a) == [t |-> "ref", at |-> a]

\* the dict literal of pipeline.py lines 40-44: a new object per execution
DebugAt(p) == At(p, "_debug")

\* a get_fallback_json that returns one module-level dict to every caller
FallbackAt_shared(p) == At(0, "fallback")

\* the dict get_fallback_json() returns to execution p: a dict literal in
\* the function body (timeout_manager.py lines 88-104), a new object per call
FallbackAt(p) == At(p, "fallback")

\* the dict analyze_and_write returned to execution p
ResultAt(p) == At(p, "result")

\* the registry file that _load_job_map reads
RegistryAt == At(0, "job_map.json")

\* the object at a, made with value v unless there is one already
New(h, a, v) ==
    [x \in DOMAIN h \cup {a} |->
        IF x \in DOMAIN h THEN h[x] ELSE [v |-> v, writers |-> {}]]

\* execution p updates the dict at a with the entries of b
Write(h, a, p, b) ==
    [h EXCEPT ![a] = [v |-> Update(@.v, b), writers |-> @.writers \cup {p}]]

ConcQueries == {StrV(<<"P", "y", "t", "h", "o", "n", " ">>), StrV(Api \o <<" ">> \o Developer)}

ConcInit ==
    /\ pc = [p \in Execs |-> "start"]
    /\ job_query \in [Execs -> ConcQueries]
    /\ job_map_arg = Null
    /\ fn = NoFn
    /\ heap = New(NoHeap, RegistryAt, RegistryA)
    /\ elapsed = [p \in Execs |-> 0]
    /\ _debug = [p \in Execs |-> Null]
    /\ retry_count = 0
    /\ resume_json = [p \in Execs |-> Null]
    /\ url_pair = [p \in Execs |-> <<Null, Null>>]
    /\ ex = NoCall
    /\ job_json = [p \in Execs |-> Null]
    /\ an = Null
    /\ unstripped = [p \in Execs |-> Null]
    /\ ret = [p \in Execs |-> Null]
    /\ hist = [p \in Execs |-> <<>>]

\* the locals of execution p
Locals(p) ==
    [resume_json |-> resume_json[p], url_pair |-> url_pair[p], job_json |-> job_json[p],
     unstripped |-> unstripped[p], ret |-> ret[p], hist |-> hist[p]]

\* execution p moves to position to, with the heap h and the locals l
Moves(p, to, h, l) ==
    /\ pc' = [pc EXCEPT ![p] = to]
    /\ heap' = h
    /\ resume_json' = [resume_json EXCEPT ![p] = l.resume_json]
    /\ url_pair' = [url_pair EXCEPT ![p] = l.url_pair]
    /\ job_json' = [job_json EXCEPT ![p] = l.job_json]
    /\ unstripped' = [unstripped EXCEPT ![p] = l.unstripped]
    /\ ret' = [ret EXCEPT ![p] = l.ret]
    /\ hist' = [hist EXCEPT ![p] = l.hist]
    /\ UNCHANGED <<job_query, job_map_arg, fn, elapsed, _debug, retry_count, ex, an>>

\* _get_timeout_result(_debug) and _get_extraction_error_result(_debug) up
\* to the call of strip_debug (lines 131-135, 151-154): the marks on the
\* execution's _debug, the fallback record, the reference stored in it
Fallback(p, marks) ==
    LET marked == Write(heap, _debug[p], p, marks)
        made == New(marked, FallbackAt(p), get_fallback_json)
        result == Write(made, FallbackAt(p), p, [_debug |-> Ref(_debug[p])])
    IN  Moves(p, "strip", result,
              [Locals(p) EXCEPT !.unstripped = FallbackAt(p),
                                !.hist = Append(@, [kind |-> "fallback"])])

TimeoutMarks == [timeout_exceeded |-> TRUE, total_time_ms |-> TIMEOUT_SECONDS * 1000]

\* a stage of execution p at position at: the budget check before it
\* (lines 48, 65, 76, 94), then the stage
Stage(p, at, stage) ==
    /\ pc[p] = at
    /\ IF check_timeout_elapsed(elapsed[p]) THEN Fallback(p, TimeoutMarks) ELSE stage

\* lines 39-44
ConcEnter(p) ==
    /\ pc[p] = "start"
    /\ pc' = [pc EXCEPT ![p] = "parse"]
    /\ _debug' = [_debug EXCEPT ![p] = DebugAt(p)]
    /\ heap' = New(heap, DebugAt(p),
                   [parser_attempts |-> 0, job_url_used |-> <<>>, total_time_ms |-> 0])
    /\ UNCHANGED <<job_query, job_map_arg, fn, elapsed, retry_count, resume_json, url_pair,
                   ex, job_json, an, unstripped, ret, hist>>

\* the budget of execution p runs out while it is under way
ConcTick(p) ==
    /\ pc[p] \in {"parse", "select", "extract", "analyze"}
    /\ elapsed[p] < TIMEOUT_SECONDS
    /\ elapsed' = [elapsed EXCEPT ![p] = TIMEOUT_SECONDS]
    /\ UNCHANGED <<pc, job_query, job_map_arg, fn, heap, _debug, retry_count, resume_json,
                   url_pair, ex, job_json, an, unstripped, ret, hist>>

\* lines 51-62: parse_resume gives a record of its own to each call
ConcParse(p) ==
    Stage(p, "parse",
          \E parsed \in {_get_error_json(<<>>), BuildResume(ResumeGood.v)} :
              LET h == Write(heap, _debug[p], p, [parser_attempts |-> 1])
              IN  IF "error" \in DOMAIN parsed
                  THEN Moves(p, "returned", h,
                             [Locals(p) EXCEPT !.ret = parsed,
                                               !.hist = Append(@, [kind |-> "error",
                                                                   value |-> parsed])])
                  ELSE Moves(p, "select", h, [Locals(p) EXCEPT !.resume_json = parsed]))

\* lines 68-70: select_job reads the registry
ConcSelect(p) ==
    Stage(p, "select",
          Moves(p, "extract", Write(heap, _debug[p], p, [job_url_used |-> <<"primary">>]),
                [Locals(p) EXCEPT !.url_pair = select_job(job_query[p].v, heap[RegistryAt].v)]))

\* lines 79-91: a job record, or no attempt of extract_job succeeds
ConcExtract(p) ==
    Stage(p, "extract",
          \E fetched \in {Raises, Returns(PageFull)} :
              LET job == _extract_from_url(url_pair[p][1], fetched)
              IN  IF job.status = "raise"
                  THEN Fallback(p, [extraction_failed |-> TRUE])
                  ELSE Moves(p, "analyze", heap, [Locals(p) EXCEPT !.job_json = job.value]))

\* the record analyze_and_write returns when its delegates answer
\* (analyzer_writer_agent.py lines 45-114), for an order of the missing skills
Analysis(resume, job, missing) ==
    LET overlap == _calculate_skill_overlap(resume, job)
        edu_match == _check_education_match(resume)
        score == _get_experience_score(resume, job, Returns(StrV(<<"S", ":", " ", "1", "2", "/", "1", "0">>)))
        a == [final_score |-> _calculate_final_score(overlap, score.value, edu_match),
              skill_overlap_ratio |-> overlap,
              experience_score |-> score.value,
              edu_match |-> edu_match,
              missing_skills |-> missing,
              strengths |-> _generate_strengths(resume, overlap, edu_match),
              how_to_improve |-> _generate_how_to_improve(missing, overlap)]
    IN  FinishAnalysis(a, job, StrV(FourSentences), StrV(FourSentences),
                       StrV(FourSentences)).value

\* lines 97-111: analyze_and_write raises, or its record takes the entries
\* of the execution's _debug
ConcAnalyze(p) ==
    Stage(p, "analyze",
          \/ Fallback(p, TimeoutMarks)
          \/ \E missing \in Orders(MissingSkillSet(resume_json[p], job_json[p])) :
                LET result == Analysis(resume_json[p], job_json[p], missing)
                    timed == Write(heap, _debug[p], p, [total_time_ms |-> elapsed[p] * 1000])
                    made == New(timed, ResultAt(p), result)
                    merged == DictV(IF result["_debug"].v = <<>> THEN timed[_debug[p]].v
                                    ELSE Update(result["_debug"].v, timed[_debug[p]].v))
                IN  Moves(p, "strip", Write(made, ResultAt(p), p, [_debug |-> merged]),
                          [Locals(p) EXCEPT !.unstripped = ResultAt(p),
                                            !.hist = Append(@, [kind |-> "final",
                                                                value |-> result])]))

\* return strip_debug(result) (lines 114, 138, 156)
ConcStrip(p) ==
    /\ pc[p] = "strip"
    /\ Moves(p, "returned", heap,
             [Locals(p) EXCEPT !.ret = strip_debug(heap[unstripped[p]].v)])

ConcNext ==
    \/ \E p \in Execs : ConcEnter(p)
    \/ \E p \in Execs : ConcTick(p)
    \/ \E p \in Execs : ConcParse(p)
    \/ \E p \in Execs : ConcSelect(p)
    \/ \E p \in Execs : ConcExtract(p)
    \/ \E p \in Execs : ConcAnalyze(p)
    \/ \E p \in Execs : ConcStrip(p)

ConcSpec == ConcInit /\ [][ConcNext]_vars

(***************************************************************************)
(* The stages on records held by reference.  A dict or a list a stage is   *)
(* given or makes is a cell of heap, its address naming the stage whose    *)
(* code made it; a dict holds a reference for every list it contains.  A   *)
(* stage reads through the references it is given, and writes the cells    *)
(* its code writes: a list it appends to, a dict it assigns into.          *)
(***************************************************************************)
\* the makers of objects: the caller of the stages (run_pipeline and the
\* stages before), and the call of analyze_and_write
Caller == "run_pipeline"
Callee == "analyze_and_write"

\* the object a stage names name, or the list under key of that object
FieldAt(p, name, key) == At(p, <<name, key>>)

IsRef(x) == x.t = "ref"

\* the dict rec made by p under name: a cell for the dict, and a cell for
\* each list it holds
Store(h, p, name, rec) ==
    LET lists == {k \in DOMAIN rec : IsList(rec[k]) \/ IsDict(rec[k])}
        made == {FieldAt(p, name, k) : k \in lists \cup {""}} \ DOMAIN h
    IN  [a \in DOMAIN h \cup made |->
            IF a \in DOMAIN h THEN h[a]
            ELSE IF a.obj[2] = ""
            THEN [v |-> [k \in DOMAIN rec |->
                            IF k \in lists THEN Ref(FieldAt(p, name, k)) ELSE rec[k]],
                  writers |-> {}]
            ELSE [v |-> rec[a.obj[2]], writers |-> {}]]

\* the dict at a as its reader sees it, every reference followed
Deref(h, a) ==
    [k \in DOMAIN h[a].v |-> IF IsRef(h[a].v[k]) THEN h[h[a].v[k].at].v ELSE h[a].v[k]]

\* p appends items to the list at a (list.append, list.extend)
Extends(h, a, p, items) ==
    [h EXCEPT ![a] = [v |-> ListV(@.v.v \o items), writers |-> @.writers \cup {p}]]

\* job_map.json as _load_job_map returned it (selector_agent.py line 30)
JobMapAt == FieldAt(Caller, "job_map", "")

ResumeAt == FieldAt(Caller, "resume", "")

JobAt == FieldAt(Caller, "job", "")

\* exp_points = [] (analyzer_writer_agent.py line 153)
ExpPointsAt == FieldAt(Callee, "exp_points", "")

\* a missing list that is the job's own skills list
MissingAt_job_skills == FieldAt(Caller, "job", "skills")

\* missing = [] (analyzer_writer_agent.py line 232)
MissingAt == FieldAt(Callee, "missing", "")

\* strengths = [] and suggestions = [] (lines 258, 280)
StrengthsAt == FieldAt(Callee, "strengths", "")

SuggestionsAt == FieldAt(Callee, "suggestions", "")

\* the dict literals of lines 74-93 and 100-113
FrameResultAt == FieldAt(Callee, "result", "")

FrameMinimalAt == FieldAt(Callee, "minimal", "")

FrameResumes == {BuildResume(ResumeGood.v), BuildResume(ResumeSparse.v)}

FrameInit ==
    /\ pc = "select"
    /\ job_query \in ConcQueries
    /\ job_map_arg \in {RegistryA, RegistryEmptyDefault}
    /\ fn = NoFn
    /\ \E resume \in FrameResumes :
          heap = Store(New(NoHeap, JobMapAt, job_map_arg), Caller, "resume", resume)
    /\ elapsed = 0
    /\ _debug = [parser_attempts |-> 1, job_url_used |-> <<>>, total_time_ms |-> 0]
    /\ retry_count = 0
    /\ resume_json = ResumeAt
    /\ url_pair = <<Null, Null>>
    /\ ex = NoCall
    /\ job_json = Null
    /\ an = Null
    /\ unstripped = Null
    /\ ret = Null
    /\ hist = <<>>

\* select_job reads the registry (selector_agent.py lines 33-57)
FrameSelect ==
    /\ pc = "select"
    /\ pc' = "extract"
    /\ url_pair' = select_job(job_query.v, heap[JobMapAt].v)
    /\ UNCHANGED <<job_query, job_map_arg, fn, heap, elapsed, _debug, retry_count,
                   resume_json, ex, job_json, an, unstripped, ret, hist>>

\* extract_job on the selected pair (extractor_agent.py lines 54-60): a job
\* record, which analyze_and_write is then called with, or no record
FrameExtract ==
    /\ pc = "extract"
    /\ \E fetched \in FetchAnswers :
          LET job == _extract_from_url(url_pair[1], fetched)
              call == <<FetchEvent(url_pair[1], fetched, job.status, "primary", 1)>>
          IN  IF job.status = "raise"
              THEN /\ Return(_get_extraction_error_result(_debug), call)
                   /\ UNCHANGED <<heap, job_json, fn>>
              ELSE LET h == Store(heap, Caller, "job", job.value)
                   IN  /\ heap' = h
                       /\ job_json' = JobAt
                       /\ fn' = [f |-> "analyze_and_write", x |-> h, done |-> FALSE,
                                 y |-> Null]
                       /\ pc' = "analyze"
                       /\ hist' = hist \o call
                       /\ UNCHANGED <<_debug, unstripped, ret>>
    /\ UNCHANGED <<job_query, job_map_arg, elapsed, retry_count, resume_json, url_pair,
                   ex, an>>

\* exp_points.extend(job.get("points", [])) over the work history
\* (analyzer_writer_agent.py lines 154-155)
RECURSIVE ExtendWithPoints(_, _)
ExtendWithPoints(h, work_history) ==
    IF work_history = <<>> THEN h
    ELSE ExtendWithPoints(Extends(h, ExpPointsAt, Callee,
                                  Get(work_history[1].v, "points", ListV(<<>>)).v),
                          Tail(work_history))

\* analyzer_writer_agent.py lines 44-62: the scores, and the lists made
\* for the result
FrameScore ==
    /\ pc = "analyze"
    /\ LET resume == Deref(heap, resume_json)
           job == Deref(heap, job_json)
       IN  IF ExperiencePromptRaises(resume, job)
           THEN AnalyzeRaises(<<>>) /\ UNCHANGED <<an, heap>>
           ELSE \E answer \in ScoreAnswers :
                  LET points == ExtendWithPoints(New(heap, ExpPointsAt, ListV(<<>>)),
                                                 resume["work_history"].v)
                      score == _get_experience_score(resume, job, answer)
                      call == <<CallEvent("generate_text",
                                          IF answer.kind = "value" THEN answer.value ELSE Null,
                                          answer, score.status)>>
                  IN  IF score.status = "raise" \/ ~AllStr(resume["education"].v)
                      THEN AnalyzeRaises(call) /\ heap' = points /\ UNCHANGED an
                      ELSE \E missing \in Orders(MissingSkillSet(resume, job)) :
                             LET overlap == _calculate_skill_overlap(resume, job)
                                 edu_match == _check_education_match(resume)
                                 listed == Extends(New(points, MissingAt, ListV(<<>>)),
                                                   MissingAt, Callee,
                                                   [i \in DOMAIN missing |-> StrV(missing[i])])
                                 strong == Extends(New(listed, StrengthsAt, ListV(<<>>)),
                                                   StrengthsAt, Callee,
                                                   _generate_strengths(resume, overlap, edu_match))
                             IN  /\ heap' = Extends(New(strong, SuggestionsAt, ListV(<<>>)),
                                                    SuggestionsAt, Callee,
                                                    _generate_how_to_improve(missing, overlap))
                                 /\ an' = [final_score |->
                                              _calculate_final_score(overlap, score.value, edu_match),
                                           skill_overlap_ratio |-> overlap,
                                           experience_score |-> score.value,
                                           edu_match |-> edu_match,
                                           missing_skills |-> Ref(MissingAt),
                                           strengths |-> Ref(StrengthsAt),
                                           how_to_improve |-> Ref(SuggestionsAt)]
                                 /\ pc' = "summary"
                                 /\ hist' = hist \o call
                                 /\ UNCHANGED <<_debug, unstripped, ret>>
    /\ UNCHANGED <<job_query, job_map_arg, fn, elapsed, retry_count, resume_json, url_pair,
                   ex, job_json>>

\* the locals of analyze_and_write as values, the lists read through their
\* references
FrameLocals(h, a) ==
    [a EXCEPT !.missing_skills = [i \in DOMAIN h[a.missing_skills.at].v.v |->
                                     h[a.missing_skills.at].v.v[i].v],
              !.strengths = h[a.strengths.at].v.v,
              !.how_to_improve = h[a.how_to_improve.at].v.v]

\* the record of lines 74-93, holding the lists made before and a new dict
\* under _debug
FrameAssembled(h, a, result) ==
    LET made == New(New(h, FieldAt(Callee, "result", "_debug"), result["_debug"].v),
                    FrameResultAt,
                    [k \in DOMAIN result |->
                        CASE k = "missing_skills" -> a.missing_skills
                          [] k = "strengths" -> a.strengths
                          [] k = "how_to_improve" -> a.how_to_improve
                          [] k = "_debug" -> Ref(FieldAt(Callee, "result", "_debug"))
                          [] OTHER -> result[k]])
    IN  [heap |-> made, at |-> FrameResultAt]

\* the record of lines 100-113, with list and dict literals of its own
FrameMinimal(h, result) ==
    LET stored == Store(h, Callee, "minimal",
                        [k \in DOMAIN result \ {"_debug"} |-> result[k]])
        made == New(stored, FieldAt(Callee, "minimal", "_debug"), <<>>)
    IN  [heap |-> Write(made, FrameMinimalAt, Callee,
                        [_debug |-> Ref(FieldAt(Callee, "minimal", "_debug"))]),
         at |-> FrameMinimalAt]

\* the last generation (line 67), the post-validation and the assembly
\* (lines 70-114), and pipeline.py lines 104-114 on the record returned
FrameFinish ==
    /\ pc = "recruiter_message"
    /\ \E answer \in TextAnswers :
        LET call == <<CallEvent("generate_text", Null, answer, answer.kind)>>
            a == FrameLocals(heap, an)
            job == Deref(heap, job_json)
            result == FinishAnalysis(a, job, an["optimized_summary"],
                                     an["cover_letter"], answer.value)
        IN  IF answer.kind = "raise" \/ result.status = "raise"
            THEN AnalyzeRaises(call) /\ UNCHANGED <<an, heap, fn>>
            ELSE LET built == IF "skill_overlap_ratio" \in DOMAIN result.value["_debug"].v
                              THEN FrameAssembled(heap, an, result.value)
                              ELSE FrameMinimal(heap, result.value)
                     final_debug == Put(_debug, "total_time_ms", elapsed * 1000)
                     debug_at == built.heap[built.at].v["_debug"].at
                     merged == Write(built.heap, debug_at, Caller, final_debug)
                     returned == [Deref(merged, built.at) EXCEPT
                                     !["_debug"] = DictV(merged[debug_at].v)]
                 IN  /\ an' = Put(an, "recruiter_message", answer.value)
                     /\ heap' = merged
                     /\ fn' = [fn EXCEPT !.done = TRUE, !.y = built.at]
                     /\ Return([debug |-> final_debug, unstripped |-> returned,
                                ret |-> strip_debug(returned)], call)
    /\ UNCHANGED <<job_query, job_map_arg, elapsed, retry_count, resume_json, url_pair,
                   ex, job_json>>

FrameNext ==
    \/ FrameSelect
    \/ FrameExtract
    \/ FrameScore
    \/ AnalyzeSummary
    \/ AnalyzeCover
    \/ FrameFinish

FrameSpec == FrameInit /\ [][FrameNext]_vars

(***************************************************************************)
(* Observations on the log                                                 *)
(***************************************************************************)
Returned == pc = "returned"

IsEnter(v) == v.e = "enter"
IsCheck(v) == v.e = "check"
IsCallOf(v, delegate) == v.e = "call" /\ v.x = delegate

Enters == SelectSeq(hist, IsEnter)

\* the stage each delegate belongs to
StageOfDelegate ==
    [generate_json |-> "PARSE", registry |-> "SELECT",
     load_web_page |-> "EXTRACT", generate_text |-> "ANALYZE"]

\* the stage entered last before position i of the log
StageAt(i) ==
    LET before == {j \in 1..i : IsEnter(hist[j])}
    IN  IF before = {} THEN "START"
        ELSE hist[CHOOSE j \in before : \A k \in before : k <= j].x

\* a record without its _debug entry
WithoutDebug(r) == [k \in DOMAIN r \ {"_debug"} |-> r[k]]

\* the canned fallback record as the caller sees it
IsCannedFallback(r) ==
    /\ r = WithoutDebug(get_fallback_json)
    /\ r["match_score"] = IntV(82)

(***************************************************************************)
(* Claims                                                                  *)
(***************************************************************************)
\* C1: run_pipeline never lets an exception escape: whatever the delegates
\* do (succeed, raise, return a malformed value), the run never ends in an
\* exception, and a run that has ended has returned a record.
C1_NoExceptionEscapes ==
    /\ pc # "raised"
    /\ Returned => ret # Null /\ DOMAIN ret # {}

\* a run that returned a record although a text generation raised
C1_Witness ==
    /\ Returned
    /\ \E i \in DOMAIN hist : IsCallOf(hist[i], "generate_text") /\ ~hist[i].ok

\* C3: no record returned by run_pipeline contains the _debug key, on any
\* exit path; on every path but the parse error the diagnostics
\* (parser_attempts, job_url_used, total_time_ms) are attached to the record
\* first and the returned record is that record without _debug.
C3_NoDebugReturned ==
    Returned =>
        /\ "_debug" \notin DOMAIN ret
        /\ "error" \notin DOMAIN ret =>
              /\ "_debug" \in DOMAIN unstripped
              /\ {"parser_attempts", "job_url_used", "total_time_ms"}
                     \subseteq DOMAIN unstripped["_debug"].v
              /\ ret = WithoutDebug(unstripped)

\* a normal completion: the analyzer's record with the diagnostics attached
C3_Witness ==
    /\ Returned
    /\ "_debug" \in DOMAIN unstripped
    /\ "skill_overlap_ratio" \in DOMAIN unstripped["_debug"].v
    /\ "_debug" \notin DOMAIN ret

\* the state part of C4: the stages entered so far are PARSE, SELECT,
\* EXTRACT, ANALYZE in this order, each at most once, and every delegate call
\* is made while the stage it belongs to is the one entered last
C4_OrderSoFar ==
    /\ Len(Enters) <= Len(Stages)
    /\ \A i \in DOMAIN Enters : Enters[i].x = Stages[i]
    /\ \A i \in DOMAIN hist :
          hist[i].e = "call" => StageAt(i) = StageOfDelegate[hist[i].x]

\* C4: the stages are entered in the fixed order PARSE, SELECT, EXTRACT,
\* ANALYZE, a stage only after the previous one has finished, none again
\* after a later one has started, and once run_pipeline has returned (DONE,
\* fallback or parse error) no stage is entered and no delegate is called.
C4_StagesInOrder ==
    /\ []C4_OrderSoFar
    /\ [][Returned => hist' = hist]_vars

\* all four stages were entered and the run is over
C4_Witness == Returned /\ Len(Enters) = Len(Stages)

\* the state part of C5: a stage is entered only right after a budget check
\* for that stage that let it pass; a check that reports the budget
\* exhausted is the last event of the run, which has returned the canned
\* fallback record
C5_ChecksSoFar ==
    /\ \A i \in DOMAIN hist :
          IsEnter(hist[i]) =>
              /\ i > 1
              /\ IsCheck(hist[i - 1]) /\ hist[i - 1].x = hist[i].x /\ hist[i - 1].ok
    /\ \A i \in DOMAIN hist :
          IsCheck(hist[i]) /\ ~hist[i].ok =>
              /\ i = Len(hist)
              /\ Returned
              /\ IsCannedFallback(ret)
              /\ i = 1 => \A j \in DOMAIN hist : hist[j].e # "call"

\* the step part of C5: a budget check ends the run exactly when the elapsed
\* time has reached 55 seconds, and otherwise enters its stage
C5_CheckStep ==
    pc \in DOMAIN CheckedStage /\ pc' # pc =>
        IF elapsed >= 55
        THEN pc' = "returned" /\ hist' = Append(hist, CheckEvent(CheckedStage[pc], TRUE))
        ELSE pc' # "returned" /\ Len(hist') = Len(hist) + 2

\* C5: before each of the four stages the elapsed time is checked against
\* the 55-second budget; when the check reports the budget exhausted (the
\* elapsed time is 55 s or more) neither that stage nor a later one is
\* attempted, no delegate is called from then on, and the canned fallback
\* record with match_score 82 is returned; when the first check reports
\* exhaustion no delegate call is made at all.
C5_BudgetChecks ==
    /\ []C5_ChecksSoFar
    /\ [][C5_CheckStep]_vars

\* the check before EXTRACT reported exhaustion after PARSE and SELECT ran
C5_Witness ==
    /\ Returned
    /\ Len(hist) > 1
    /\ IsCheck(hist[Len(hist)]) /\ ~hist[Len(hist)].ok /\ hist[Len(hist)].x = "EXTRACT"

\* the structured-extraction calls made so far
IsParseCall(v) == IsCallOf(v, "generate_json")
ParseCalls == SelectSeq(hist, IsParseCall)

\* parse_resume is no longer running
ParseOver == Len(ParseCalls) >= 1 /\ pc # "parse"

ParseEndsInError ==
    /\ Len(ParseCalls) >= 1
    /\ LET last == ParseCalls[Len(ParseCalls)]
       IN  \/ last.out = "raise"
           \/ Len(ParseCalls) = 2 /\ last.out \in {"failed", "invalid"}

\* C7: when the PARSE stage returns an ErrorRecord or raises, run_pipeline
\* returns a record with an error field and match_score null at once:
\* SELECT, EXTRACT and ANALYZE are never entered and neither the registry,
\* the page fetch nor the text generation is called.
C7_ParseErrorIsTerminal ==
    ParseEndsInError =>
        /\ Returned
        /\ "error" \in DOMAIN ret
        /\ IsStr(ret["error"])
        /\ ret["match_score"] = Null
        /\ Enters = <<EnterEvent("PARSE")>>
        /\ IsParseCall(hist[Len(hist)])
        /\ \A i \in DOMAIN hist : hist[i].e = "call" => IsParseCall(hist[i])

\* two failed attempts, and the run is over with the parser's error record
C7_Witness ==
    /\ Returned
    /\ Len(ParseCalls) = 2
    /\ ParseCalls[2].out \in {"failed", "invalid"}
    /\ ret = resume_json

\* the page fetches
IsFetch(v) == IsCallOf(v, "load_web_page")

CandidateRank == [primary |-> 1, backup |-> 2, default |-> 3]

\* the URL extract_job call n has for a candidate
CandidateUrl(n, at) ==
    CASE at = "primary" -> ExtractArgs(n)[1]
      [] at = "backup" -> ExtractArgs(n)[2]
      [] OTHER -> DEFAULT_JOB_URL

\* before position i of the log, call n skipped the candidate or failed on it
FailedOrSkipped(i, n, at) ==
    \/ ~(Truthy(CandidateUrl(n, at)) /\ _is_allowed_domain(CandidateUrl(n, at)))
    \/ \E j \in 1..(i - 1) :
          IsFetch(hist[j]) /\ hist[j].n = n /\ hist[j].at = at /\ hist[j].out = "raise"

\* C10: extract_job tries primary, backup, default in this order and the
\* first success wins: after a success nothing more is fetched and the
\* record returned is the one parsed from that page; the backup is tried
\* only after the primary was skipped or failed, the default only after both
\* were; a failure of the primary or backup attempt is swallowed, the same
\* extract_job call going on with the next candidate.
C10_ExtractOrder ==
    \A i \in DOMAIN hist :
        IsFetch(hist[i]) =>
            LET v == hist[i]
            IN  /\ v.arg = CandidateUrl(v.n, v.at)
                /\ \A j \in 1..(i - 1) :
                      IsFetch(hist[j]) /\ hist[j].n = v.n =>
                          /\ CandidateRank[hist[j].at] < CandidateRank[v.at]
                          /\ hist[j].out = "raise"
                /\ v.at = "backup" => FailedOrSkipped(i, v.n, "primary")
                /\ v.at = "default" =>
                      FailedOrSkipped(i, v.n, "primary") /\ FailedOrSkipped(i, v.n, "backup")
                /\ v.out = "ok" =>
                      /\ \A j \in (i + 1)..Len(hist) : ~IsFetch(hist[j])
                      /\ job_json \in {_parse_job_content(page, v.arg) :
                                          page \in {PageFull, PageBare}}
                /\ v.out = "raise" /\ v.at # "default" =>
                      \/ pc \in {"extract_backup", "extract_default"} /\ ex.call = v.n
                      \/ \E j \in (i + 1)..Len(hist) : IsFetch(hist[j]) /\ hist[j].n = v.n

\* the primary failed and the backup, a different URL, gave the record
C10_Witness ==
    \E i, j \in DOMAIN hist :
        /\ i < j
        /\ IsFetch(hist[i]) /\ hist[i].at = "primary" /\ hist[i].out = "raise"
        /\ IsFetch(hist[j]) /\ hist[j].at = "backup" /\ hist[j].out = "ok"
        /\ hist[i].n = 1 /\ hist[j].n = 1
        /\ hist[i].arg # hist[j].arg
        /\ job_json["job_url"] = hist[j].arg

\* the keys of a FinalRecord
FinalRecordKeys ==
    {"match_score", "score_breakdown", "missing_skills", "strengths", "how_to_improve",
     "optimized_summary", "cover_letter", "recruiter_message", "job_title", "company",
     "job_url"}

FinalListKeys == {"missing_skills", "strengths", "how_to_improve"}

FinalTextKeys == FinalRecordKeys \ (FinalListKeys \cup {"match_score"})

\* exactly the eleven keys with the schema's types
IsFinalRecord(r) ==
    /\ DOMAIN r = FinalRecordKeys
    /\ r["match_score"] = Null \/ r["match_score"].t = "int"
    /\ \A k \in FinalListKeys : IsList(r[k]) /\ AllStr(r[k].v)
    /\ \A k \in FinalTextKeys : IsStr(r[k])

\* a FinalRecord-shaped document with an added string error field,
\* match_score null and every list and string field at its empty default
IsErrorRecord(r) ==
    /\ DOMAIN r = FinalRecordKeys \cup {"error"}
    /\ IsStr(r["error"])
    /\ r["match_score"] = Null
    /\ \A k \in FinalListKeys : r[k] = ListV(<<>>)
    /\ \A k \in FinalTextKeys : r[k] = StrV(<<>>)

\* C2: every record returned by run_pipeline is well-formed: it has exactly
\* the eleven FinalRecord keys with the schema's types, or it has the
\* ErrorRecord shape; a partially filled record is never returned.
C2_WellFormed == Returned => IsFinalRecord(ret) \/ IsErrorRecord(ret)

\* C8: every ErrorRecord is FinalRecord-shaped: it holds every FinalRecord
\* key and a string error field, with match_score null and every list and
\* string field at its empty default.
C8_ErrorRecordShape ==
    /\ "error" \in DOMAIN resume_json => IsErrorRecord(resume_json)
    /\ Returned /\ "error" \in DOMAIN ret => IsErrorRecord(ret)

\* C9: run_pipeline returns an ErrorRecord only when the parser has
\* exhausted its retry budget, that is after two failed parse attempts; any
\* other failure gives a full FinalRecord or the canned fallback record.
C9_ErrorOnlyAfterRetries ==
    Returned /\ "error" \in DOMAIN ret =>
        /\ Len(ParseCalls) = 2
        /\ \A i \in 1..2 : ParseCalls[i].out \in {"failed", "invalid"}

IsRaiseOf(v, callee) == v.e = "raise" /\ v.x = callee

\* C11: extract_job never throws to its caller: whatever the primary and
\* backup URLs are and whatever comes of each per-URL extraction, the
\* failure of the attempt on the default URL included, the call returns a
\* JobRecord.
C11_ExtractNeverThrows ==
    /\ \A i \in DOMAIN hist : ~IsRaiseOf(hist[i], "extract_job")
    /\ pc \in {"check_analyze", "analyze"} =>
          job_json # Null /\ validate_job_schema(job_json)

\* the host of the URL contains lever.co, greenhouse.io, ashbyhq.com or
\* workable.com
HostIsListed(url) ==
    \E listed \in {LeverCo, GreenhouseIo, AshbyhqCom, WorkableCom} :
        IsSubstr(listed, StrLower(UrlNetloc(url.v)))

NotListed(url) == url = Null \/ ~HostIsListed(url)

\* C12: extract_job never fetches a primary or backup URL whose host
\* contains none of the four allow-listed domains; when neither the primary
\* nor the backup is allow-listed, the only URL the call fetches is the
\* default URL, and the record it returns has the default URL as job_url.
C12_AllowList ==
    \A i \in DOMAIN hist :
        IsFetch(hist[i]) =>
            LET v == hist[i]
            IN  /\ v.at \in {"primary", "backup"} => HostIsListed(v.arg)
                /\ NotListed(ExtractArgs(v.n)[1]) /\ NotListed(ExtractArgs(v.n)[2]) =>
                      /\ v.at = "default"
                      /\ v.arg = DEFAULT_JOB_URL
                      /\ v.out = "ok" => job_json["job_url"] = DEFAULT_JOB_URL

\* the selected pair names a host that is not allow-listed, and the one
\* fetch of the call, on the default URL, gave the record
C12_Witness ==
    /\ \A k \in 1..2 : Truthy(url_pair[k]) /\ NotListed(url_pair[k])
    /\ \E i \in DOMAIN hist :
          /\ IsFetch(hist[i]) /\ hist[i].n = 1 /\ hist[i].out = "ok"
          /\ \A j \in DOMAIN hist : IsFetch(hist[j]) => j = i
    /\ job_json # Null /\ job_json["job_url"] = DEFAULT_JOB_URL

Entered(stage) == \E i \in DOMAIN hist : IsEnter(hist[i]) /\ hist[i].x = stage

InExtract == pc \in {"extract", "extract_backup", "extract_default"}

\* the EXTRACT stage is over and none of its fetches gave a record
ExtractionFailed ==
    /\ Entered("EXTRACT") /\ ~InExtract
    /\ \A i \in DOMAIN hist : IsFetch(hist[i]) => hist[i].out = "raise"

\* C13: when every extraction of the EXTRACT stage fails, the default URL
\* included, run_pipeline returns the canned fallback record (match_score
\* 82) and ANALYZE is never entered; when the default URL gives a record
\* after the primary and the backup failed or were skipped, the pipeline
\* goes on to the ANALYZE boundary with the record of the default posting.
C13_ExtractFallback ==
    /\ ExtractionFailed =>
          /\ Returned
          /\ IsCannedFallback(ret)
          /\ ret["match_score"] = IntV(82)
          /\ ~Entered("ANALYZE")
    /\ \A i \in DOMAIN hist :
          IsFetch(hist[i]) /\ hist[i].out = "ok" /\ hist[i].arg = DEFAULT_JOB_URL =>
              /\ ~InExtract
              /\ job_json \in {_parse_job_content(page, DEFAULT_JOB_URL) :
                                  page \in {PageFull, PageBare}}
              /\ IF i = Len(hist) THEN pc = "check_analyze"
                 ELSE IsCheck(hist[i + 1]) /\ hist[i + 1].x = "ANALYZE"

\* the primary, the backup and the default URL were fetched in vain
C13_Witness ==
    /\ ExtractionFailed
    /\ \A at \in {"primary", "backup", "default"} :
          \E i \in DOMAIN hist : IsFetch(hist[i]) /\ hist[i].n = 1 /\ hist[i].at = at
    /\ Returned /\ ret["match_score"] = IntV(82)

IsTextCall(v) == IsCallOf(v, "generate_text")

\* the first text-generation call of a run asks for the experience score
IsScoreCall(i) == IsTextCall(hist[i]) /\ \A j \in 1..(i - 1) : ~IsTextCall(hist[j])

\* the answer holds no integer
NoInteger(answer) == ~IsStr(answer) \/ \A k \in DOMAIN answer.v : ~IsDigit(answer.v[k])

\* the run ended at position i of the log with the canned fallback record
FallsBackAt(i) == i = Len(hist) /\ Returned /\ IsCannedFallback(ret)

\* C14: when the ANALYZE stage raises, whatever the reason (the experience
\* score delegate answers without an integer, a text generation fails),
\* run_pipeline returns the canned fallback record with match_score 82, and
\* nothing the failed stage computed is in it.
C14_AnalyzeFallback ==
    \A i \in DOMAIN hist :
        /\ IsRaiseOf(hist[i], "analyze_and_write") =>
              /\ FallsBackAt(i)
              /\ ret["match_score"] = IntV(82)
              /\ ret = WithoutDebug(get_fallback_json)
        /\ IsTextCall(hist[i]) /\ (~hist[i].ok \/ (IsScoreCall(i) /\ NoInteger(hist[i].arg))) =>
              /\ i < Len(hist)
              /\ IsRaiseOf(hist[i + 1], "analyze_and_write")
              /\ FallsBackAt(i + 1)

\* the experience-score delegate answered "none"
C14_Witness ==
    \E i \in DOMAIN hist :
        /\ IsScoreCall(i) /\ hist[i].ok /\ IsStr(hist[i].arg) /\ NoInteger(hist[i].arg)
        /\ FallsBackAt(i + 1)

\* select_job raised at position i of the log
SelectRaisedAt(i) == IsCallOf(hist[i], "registry") /\ hist[i].out = "raise"

\* C15: a failure of the SELECT stage is never terminal: when select_job
\* raises, run_pipeline takes the pair (default URL, default URL) and goes
\* on to the EXTRACT boundary and the stages after it; a fallback or error
\* record returned by such a run has a cause after the SELECT stage (an
\* exhausted budget, a failed extraction or a failed analysis).
C15_SelectNeverTerminal ==
    \A i \in DOMAIN hist :
        SelectRaisedAt(i) =>
            /\ url_pair = <<DEFAULT_JOB_URL, DEFAULT_JOB_URL>>
            /\ IF i = Len(hist) THEN pc = "check_extract"
               ELSE IsCheck(hist[i + 1]) /\ hist[i + 1].x = "EXTRACT"
            /\ \A j \in DOMAIN hist : IsFetch(hist[j]) => hist[j].arg = DEFAULT_JOB_URL
            /\ Returned /\ (IsCannedFallback(ret) \/ "error" \in DOMAIN ret) =>
                  \E j \in (i + 1)..Len(hist) :
                      \/ IsCheck(hist[j]) /\ ~hist[j].ok
                      \/ IsRaiseOf(hist[j], "extract_job")
                      \/ IsRaiseOf(hist[j], "analyze_and_write")

\* the registry could not be loaded, and the run ended with the analysis
\* of the default posting
C15_Witness ==
    /\ \E i \in DOMAIN hist : SelectRaisedAt(i) /\ ~hist[i].ok
    /\ Entered("EXTRACT") /\ Entered("ANALYZE")
    /\ Returned
    /\ ~IsCannedFallback(ret) /\ "error" \notin DOMAIN ret
    /\ ret["job_url"] = DEFAULT_JOB_URL

\* the run ended in the fallback state: on an exhausted budget, on a failed
\* extraction of the default posting, or on a failed analysis
FellBack ==
    /\ Returned /\ hist # <<>>
    /\ LET last == hist[Len(hist)]
       IN  \/ IsCheck(last) /\ ~last.ok
           \/ IsRaiseOf(last, "extract_job") /\ last.n = 2
           \/ IsRaiseOf(last, "analyze_and_write")

\* C16: the canned fallback record is fixed and names the default posting
\* of the extractor: whatever led to the fallback, its job_url is the
\* extractor's default URL, its match_score is 82, missing_skills and
\* strengths are empty and how_to_improve holds exactly one suggestion.
C16_FallbackNamesDefault ==
    FellBack =>
        /\ ret["job_url"] = DEFAULT_JOB_URL
        /\ ret["match_score"] = IntV(82)
        /\ ret["missing_skills"] = ListV(<<>>)
        /\ ret["strengths"] = ListV(<<>>)
        /\ IsList(ret["how_to_improve"]) /\ Len(ret["how_to_improve"].v) = 1

\* the four places of run_pipeline at which the elapsed time is read
Boundaries == {"check_parse", "check_select", "check_extract", "check_analyze"}

\* the delegate whose call ends the stage before a stage
LastDelegateBefore ==
    [SELECT |-> "generate_json", EXTRACT |-> "registry", ANALYZE |-> "load_web_page"]

\* the budget is expired and the pipeline is inside a stage
ExpiredInStage == elapsed >= 55 /\ Running /\ pc \notin Boundaries

\* a step taken inside a stage reads no clock: it logs no budget check, and
\* when it ends the run with the canned fallback an exception was the cause
C26_InStageStep ==
    pc \notin Boundaries /\ hist' # hist =>
        /\ \A i \in (Len(hist) + 1)..Len(hist') : ~IsCheck(hist'[i])
        /\ pc' = "returned" /\ IsCannedFallback(ret') => hist'[Len(hist')].e = "raise"

\* every budget check stands at a stage boundary: it is the first event or
\* follows the call that ended the stage before; a stage with the budget
\* expired under it can still take its next step; an analysis that ended
\* gives its own record, however late
C26_AtBoundaries ==
    /\ \A i \in DOMAIN hist :
          IsCheck(hist[i]) =>
              IF hist[i].x = "PARSE" THEN i = 1
              ELSE /\ i > 1
                   /\ IsCallOf(hist[i - 1], LastDelegateBefore[hist[i].x])
                   /\ hist[i - 1].out \in {"ok", "raise"}
                   /\ hist[i - 1].out = "raise" => hist[i].x = "EXTRACT"
    /\ ExpiredInStage => ENABLED (Next /\ elapsed' = elapsed)
    /\ Returned /\ IsTextCall(hist[Len(hist)]) =>
          /\ ret # WithoutDebug(get_fallback_json)
          /\ ret["job_url"] = job_json["job_url"]
          /\ ret["match_score"] = IntV(an["final_score"])

\* C26: the time budget is cooperative: run_pipeline reads the elapsed time
\* only at the four stage boundaries, so a stage that has started runs to
\* its end (the parser's retry and the extractor's further attempts
\* included) even when the budget expires meanwhile, and a budget that
\* expires during ANALYZE does not replace the computed result with the
\* fallback record.
C26_CooperativeBudget ==
    /\ []C26_AtBoundaries
    /\ [][C26_InStageStep]_vars

\* the budget expired during ANALYZE, and the run returned the analysis
C26_Witness ==
    /\ Returned /\ elapsed >= 55
    /\ IsTextCall(hist[Len(hist)])
    /\ \A i \in DOMAIN hist : IsCheck(hist[i]) => hist[i].ok
    /\ ret["match_score"] = IntV(an["final_score"])
    /\ ret # WithoutDebug(get_fallback_json)

(***************************************************************************)
(* Claims on select_job                                                    *)
(***************************************************************************)
\* the calls of select_job that returned, and what they returned
SelectReturns == {i \in DOMAIN hist : hist[i].e = "return" /\ hist[i].x = "select_job"}

\* the query as the selector compares it
Normalized == StrStrip(StrLower(job_query.v))

HasDemoPrefix == IsStr(job_query) /\ StartsWith(Normalized, <<"d", "e", "m", "o", ":">>)

\* the entries of the argument registry under a key
EntriesOf(key) == {i \in DOMAIN job_map_arg : job_map_arg[i].key = key}

\* the pair of a list of URLs: the first, and the second or else the first
\* again; two empty strings when there is none
PairOf(urls) ==
    IF urls = <<>> THEN <<StrV(<<>>), StrV(<<>>)>>
    ELSE <<urls[1], urls[IF Len(urls) >= 2 THEN 2 ELSE 1]>>

\* the pair of the default entry (two empty strings without one)
DefaultPair ==
    IF EntriesOf(Default) = {} THEN PairOf(<<>>)
    ELSE PairOf(job_map_arg[CHOOSE i \in EntriesOf(Default) : TRUE].urls)

\* C17: for every registry and every query that starts with "demo:" once
\* trimmed and lower-cased, select_job returns the URL pair of the default
\* entry, whatever exact or fuzzy match the rest of the query would give.
C17_DemoGivesDefault ==
    HasDemoPrefix =>
        \A i \in SelectReturns : hist[i].arg = ListV(DefaultPair)

\* "DEMO: python" on a registry that has a python entry: the default pair,
\* which is not the pair of the python entry
C17_Witness ==
    /\ HasDemoPrefix
    /\ EntriesOf(Python) # {} /\ EntriesOf(Default) # {}
    /\ Python \in Words(Normalized)
    /\ \E i \in SelectReturns :
          /\ hist[i].arg = ListV(DefaultPair)
          /\ \A k \in EntriesOf(Python) : hist[i].arg # ListV(PairOf(job_map_arg[k].urls))

\* the query has no demo prefix and is a key of the registry
IsExactKey == IsStr(job_query) /\ ~HasDemoPrefix /\ EntriesOf(Normalized) # {}

\* C18: for every registry and every query without the demo prefix that,
\* trimmed and lower-cased, equals a registry key, select_job returns the
\* pair of that entry (urls[0]; urls[1] or else urls[0]; two empty strings
\* when the entry has no URL): neither the fuzzy match nor the default
\* entry decides.
C18_ExactKeyGivesEntry ==
    IsExactKey =>
        \A i \in SelectReturns :
            \A k \in EntriesOf(Normalized) :
                hist[i].arg = ListV(PairOf(job_map_arg[k].urls))

\* the categories of the registry: its entries other than default
Categories == {i \in DOMAIN job_map_arg : job_map_arg[i].key # Default}

\* the fuzzy score of a category: the query words among the words of its
\* tags, and the bonus for each semantic trigger in the query that names it
FuzzyScore(i) ==
    LET entry == job_map_arg[i]
        tag_words == UNION {Words(StrLower(entry.tags[k])) : k \in DOMAIN entry.tags}
        triggers == {m \in semantic_matches :
                        m[1] \in Words(Normalized) /\ entry.key \in m[2]}
    IN  Cardinality(Words(Normalized) \cap tag_words) + 2 * Cardinality(triggers)

\* no demo prefix, no key of the registry, and score 0 for every category
ScoresNothing ==
    /\ IsStr(job_query) /\ ~HasDemoPrefix
    /\ EntriesOf(Normalized) = {}
    /\ \A i \in Categories : FuzzyScore(i) = 0

\* no category is named by a word of the query
NamesNoCategory == \A i \in Categories : job_map_arg[i].key \notin Words(Normalized)

\* every result is a pair of strings: two empty strings, or the first URL
\* of an entry with its second, or with itself when the entry has one URL
PairsWellFormed ==
    \A i \in SelectReturns :
        LET pair == hist[i].arg.v
        IN  /\ Len(pair) = 2 /\ IsStr(pair[1]) /\ IsStr(pair[2])
            /\ \/ pair = PairOf(<<>>)
               \/ \E k \in DOMAIN job_map_arg :
                      /\ job_map_arg[k].urls # <<>>
                      /\ pair = PairOf(job_map_arg[k].urls)
                      /\ pair[1].v # <<>> /\ pair[2].v # <<>>
                      /\ Len(job_map_arg[k].urls) = 1 => pair[2] = pair[1]

\* C19 as stated: a query without demo prefix that equals no registry key
\* and gets fuzzy score 0 for every category gets the default entry's
\* pair; every result is a pair in which the backup repeats the primary
\* when the entry has a single URL.
C19_ScoreZeroGivesDefault ==
    /\ ScoresNothing => \A i \in SelectReturns : hist[i].arg = ListV(DefaultPair)
    /\ PairsWellFormed

\* C19, amended: a query without demo prefix that equals no registry key,
\* has no category name among its words and gets fuzzy score 0 for every
\* category gets the default entry's pair; every result is a pair in which
\* the backup repeats the primary when the entry has a single URL, so that
\* both components are non-empty whenever the entry has a URL.
C19_UnmatchedGivesDefault ==
    /\ ScoresNothing /\ NamesNoCategory =>
          \A i \in SelectReturns : hist[i].arg = ListV(DefaultPair)
    /\ PairsWellFormed

\* an unmatched query on a registry with categories and a default entry of
\* one URL: the pair repeats that URL
C19_Witness ==
    /\ ScoresNothing /\ NamesNoCategory
    /\ Categories # {}
    /\ \E k \in EntriesOf(Default) : Len(job_map_arg[k].urls) = 1
    /\ \E i \in SelectReturns :
          /\ hist[i].arg = ListV(DefaultPair)
          /\ hist[i].arg.v[2] = hist[i].arg.v[1]
          /\ hist[i].arg.v[1].v # <<>>

Called(f) == fn.f = f /\ fn.done

\* ten times the exact sum 40 * k/n + 4 * e + (20 or 12), times n
ScoreTimes10n(x) ==
    400 * x.overlap.num
    + (40 * x.experience_score + (IF x.edu_match THEN 200 ELSE 120)) * x.overlap.den

\* C21: for every skill overlap k/n (0 <= k <= n <= 10, n >= 1), every
\* experience score in 0..10 and every edu_match, the final score is the
\* integer nearest to 40 * overlap + 4 * experience_score + (20 if
\* edu_match else 12) and lies in 0..100; (0.8, 8, true) gives 84 and
\* (0.5, 5, false) gives 52.
C21_FinalScore ==
    Called("_calculate_final_score") =>
        LET x == fn.x
            n10 == 10 * x.overlap.den
            diff == n10 * fn.y - ScoreTimes10n(x)
        IN  /\ fn.y \in 0..100
            /\ 2 * diff < n10 /\ 2 * diff > -n10
            /\ 5 * x.overlap.num = 4 * x.overlap.den /\ x.experience_score = 8 /\ x.edu_match
                  => fn.y = 84
            /\ 2 * x.overlap.num = x.overlap.den /\ x.experience_score = 5 /\ ~x.edu_match
                  => fn.y = 52

\* an overlap of 2/3 with experience 7 and no degree: 40 * 2/3 + 28 + 12 is
\* 66.67, rounded up to 67
C21_Witness ==
    /\ Called("_calculate_final_score")
    /\ fn.x.overlap = [num |-> 2, den |-> 3]
    /\ fn.x.experience_score = 7 /\ ~fn.x.edu_match
    /\ fn.y = 67

\* the normalized skills of a record, as a set of strings
NormalizedSkills(record) ==
    IF "skills" \in DOMAIN record
    THEN {normalize_skills(record["skills"].v)[i].v :
             i \in DOMAIN normalize_skills(record["skills"].v)}
    ELSE {}

\* C22: for all resume and job skill lists, skill_overlap is the number of
\* normalized job skills that are also normalized resume skills, divided
\* by the number of normalized job skills; it is 0.0 when the job has no
\* normalized skill, whatever the resume, and always lies in 0..1.
C22_SkillOverlap ==
    Called("_calculate_skill_overlap") =>
        LET mine == NormalizedSkills(fn.x.resume)
            asked == NormalizedSkills(fn.x.job)
        IN  /\ fn.y.den > 0
            /\ 0 <= fn.y.num /\ fn.y.num <= fn.y.den
            /\ asked = {} => fn.y.num = 0
            /\ asked # {} =>
                  fn.y.num * Cardinality(asked) = Cardinality(mine \cap asked) * fn.y.den

\* a resume with python, nodejs and react against a job asking for nodejs,
\* python and aws: two of three
C22_Witness ==
    /\ Called("_calculate_skill_overlap")
    /\ Cardinality(NormalizedSkills(fn.x.job)) = 3
    /\ Cardinality(NormalizedSkills(fn.x.resume)) = 3
    /\ fn.y = [num |-> 2, den |-> 3]

\* the items of the input list that are strings with a non-empty
\* normalized form
Normalizable(skills) ==
    {i \in DOMAIN skills : IsStr(skills[i]) /\ NormalizeOne(skills[i].v) # <<>>}

\* the input positions at which a normalized form occurs first
FirstOccurrences(skills) ==
    {i \in Normalizable(skills) :
        \A j \in Normalizable(skills) :
            NormalizeOne(skills[j].v) = NormalizeOne(skills[i].v) => i <= j}

\* C23: for every input list, the output of normalize_skills has at most 10
\* entries, no duplicates, no empty string, no uppercase letter and no
\* whitespace, and lists the normalized forms in the order of their first
\* occurrence in the input; items that are not strings are ignored, and an
\* empty or missing input gives the empty list.
C23_NormalizeSkills ==
    Called("normalize_skills") =>
        LET out == fn.y.v
            skills == IF fn.x = Null THEN <<>> ELSE fn.x.v
            firsts == FirstOccurrences(skills)
        IN  /\ Len(out) <= 10
            /\ \A p, q \in DOMAIN out : p # q => out[p] # out[q]
            /\ \A p \in DOMAIN out :
                  /\ IsStr(out[p]) /\ out[p].v # <<>>
                  /\ \A k \in DOMAIN out[p].v :
                        out[p].v[k] \notin Range(UpperChars) \cup {" ", "\t", "\n", "\r"}
            /\ Len(out) = IF Cardinality(firsts) < 10 THEN Cardinality(firsts) ELSE 10
            /\ \A p \in DOMAIN out :
                  \E i \in firsts :
                      /\ Cardinality({j \in firsts : j <= i}) = p
                      /\ out[p].v = NormalizeOne(skills[i].v)
            /\ skills = <<>> => out = <<>>

\* "React", "react", "React.js" give the one entry "react"
C23_Witness ==
    /\ Called("normalize_skills")
    /\ fn.x # Null /\ Len(fn.x.v) = 3
    /\ fn.y = ListV(<<StrV(<<"r", "e", "a", "c", "t">>)>>)

\* the dict strip_debug was called on, as it was before the call
StripDebugArgument == hist[1].arg.v

\* C24: strip_debug is idempotent and does not modify its argument: a
\* record without _debug comes back equal, a second application changes
\* nothing, the result never has _debug and keeps every other key with its
\* value, and the record passed in still has its _debug entry afterwards.
C24_StripDebugIdempotent ==
    Called("strip_debug") =>
        LET before == StripDebugArgument
            once == fn.y.once
        IN  /\ "_debug" \notin DOMAIN before => once = before
            /\ fn.y.twice = once
            /\ DOMAIN once = DOMAIN before \ {"_debug"}
            /\ \A k \in DOMAIN once : once[k] = before[k]
            /\ fn.x = before

\* a record with a score, a title and _debug: the result has the score and
\* the title, the record passed in still has all three
C24_Witness ==
    /\ Called("strip_debug")
    /\ DOMAIN fn.x = {"match_score", "job_title", "_debug"}
    /\ DOMAIN fn.y.once = {"match_score", "job_title"}
    /\ fn.y.twice = fn.y.once

\* the number of words of a text: its maximal runs of non-blank characters
WordCount(s) ==
    Cardinality({i \in DOMAIN s : ~IsSpace(s[i]) /\ (i = 1 \/ IsSpace(s[i - 1]))})

\* the position at which word n of the text ends
EndOfWord(s, n) ==
    CHOOSE e \in DOMAIN s :
        /\ ~IsSpace(s[e]) /\ (e = Len(s) \/ IsSpace(s[e + 1]))
        /\ Cardinality({i \in 1..e : ~IsSpace(s[i]) /\ (i = 1 \/ IsSpace(s[i - 1]))}) = n

\* the characters of a text without its blanks
Unspaced(s) == SelectSeq(s, IsNotSpace)

\* C25: for every cover-letter text, the post-validated text has at most
\* 340 words: a text of more than 340 words is cut to its first 320 words,
\* joined by single blanks, and ends in ".", "!" or "?" (a period is
\* appended when needed); a text of at most 340 words, one under 280 words
\* included, is returned as it is.
C25_CoverLetterWords ==
    Called("_validate_cover_letter_word_count") =>
        LET text == fn.x.v
            out == fn.y.v
            first320 == Unspaced(SubSeq(text, 1, EndOfWord(text, 320)))
        IN  /\ WordCount(out) <= 340
            /\ WordCount(text) <= 340 => out = text
            /\ WordCount(text) > 340 =>
                  /\ WordCount(out) = 320
                  /\ out[Len(out)] \in {".", "!", "?"}
                  /\ \A i \in DOMAIN out :
                        IsSpace(out[i]) => out[i] = " " /\ ~IsSpace(out[i + 1]) /\ i > 1
                  /\ Unspaced(out) =
                        IF first320[Len(first320)] \in {".", "!", "?"} THEN first320
                        ELSE Append(first320, ".")

\* 400 words, the 320th without a closing mark: 320 words and a period
C25_Witness ==
    /\ Called("_validate_cover_letter_word_count")
    /\ WordCount(fn.x.v) = 400
    /\ WordCount(fn.y.v) = 320
    /\ SubSeq(fn.y.v, Len(fn.y.v) - 1, Len(fn.y.v)) = <<"x", ".">>

\* parse attempts that failed: the delegate raised, or the assembled record
\* violated the schema
FailedAttempt(v) == v.out \in {"failed", "invalid"}

C28_WitnessFailedInvalid ==
    /\ Len(ParseCalls) = 2
    /\ ParseCalls[1].out = "failed" /\ ParseCalls[2].out = "invalid"
    /\ IsErrorJson(resume_json)

\* C29: parse_resume signals failure without throwing: whatever the
\* structured-extraction delegate does (raises, returns a record with wrong
\* or missing fields, returns a value that is not a record, returns
\* work-history items that are not records), no attempt of parse_resume ends
\* in an exception raised to its caller, and once parse_resume is over its
\* result is a ResumeRecord or an ErrorRecord.
C29_ParseNeverRaises ==
    /\ \A i \in DOMAIN ParseCalls : ParseCalls[i].out # "raise"
    /\ ParseOver =>
          \/ IsErrorJson(resume_json)
          \/ DOMAIN resume_json = ResumeKeys /\ validate_resume_schema(resume_json)

\* the last structured-extraction call
LastParse == ParseCalls[Len(ParseCalls)]

\* parse_resume has returned a record that is no ErrorRecord
ParsedRecord == ParseOver /\ LastParse.out = "ok"

\* the empty default of a ResumeRecord field
EmptyDefault(k) ==
    CASE k = "years_of_experience" -> IntV(0)
      [] k \in {"name", "current_title"} -> StrV(<<>>)
      [] OTHER -> ListV(<<>>)

\* a skill in the form normalization gives: a non-empty string without
\* uppercase letter, whitespace, hyphen or underscore
InNormalizedForm(skill) ==
    /\ IsStr(skill) /\ skill.v # <<>>
    /\ \A k \in DOMAIN skill.v :
          skill.v[k] \notin Range(UpperChars) \cup {" ", "\t", "\n", "\r", "-", "_"}

\* C30: every non-error record returned by parse_resume has exactly the six
\* ResumeRecord keys; its skills are a list of at most 10 entries without
\* duplicates, each in normalized form and the normalized form of a string
\* the delegate listed; every work-history entry has exactly the keys
\* company, role, start, end, points, and at most 4 points; and a field the
\* delegate left out is present with its empty default.
C30_ResumeRecordShape ==
    ParsedRecord =>
        LET d == LastParse.arg.v
            skills == resume_json["skills"].v
            work == resume_json["work_history"].v
        IN  /\ DOMAIN resume_json = {"name", "years_of_experience", "current_title",
                                     "skills", "education", "work_history"}
            /\ IsList(resume_json["skills"])
            /\ Len(skills) <= 10
            /\ \A p, q \in DOMAIN skills : p # q => skills[p] # skills[q]
            /\ \A p \in DOMAIN skills :
                  /\ InNormalizedForm(skills[p])
                  /\ \E i \in DOMAIN d["skills"].v :
                        /\ IsStr(d["skills"].v[i])
                        /\ skills[p].v = NormalizeOne(d["skills"].v[i].v)
            /\ IsList(resume_json["work_history"])
            /\ \A i \in DOMAIN work :
                  /\ IsDict(work[i])
                  /\ DOMAIN work[i].v = {"company", "role", "start", "end", "points"}
                  /\ IsList(work[i].v["points"])
                  /\ Len(work[i].v["points"].v) <= 4
            /\ \A k \in DOMAIN resume_json \ DOMAIN d : resume_json[k] = EmptyDefault(k)

\* the delegate listed more than 10 distinct skills and an entry with more
\* than 4 points: the record has 10 skills and 4 points
C30_Witness ==
    /\ ParsedRecord
    /\ LastParse.arg = ResumeGood
    /\ Cardinality(FirstOccurrences(LastParse.arg.v["skills"].v)) > 10
    /\ Len(resume_json["skills"].v) = 10
    /\ \E i \in DOMAIN resume_json["work_history"].v :
          /\ Len(LastParse.arg.v["work_history"].v[i].v["points"].v) > 4
          /\ Len(resume_json["work_history"].v[i].v["points"].v) = 4

\* the delegate left fields out
C30_WitnessLeftOut ==
    /\ ParsedRecord
    /\ DOMAIN LastParse.arg.v = {"name", "skills"}
    /\ resume_json["work_history"] = ListV(<<>>)

(***************************************************************************)
(* Claims on executions side by side                                       *)
(***************************************************************************)
\* the record execution p returns when it runs alone on the answers its
\* delegates gave it: the error record of the parser, the stripped canned
\* record, or the stripped record of its analysis
Alone(p) ==
    LET last == hist[p][Len(hist[p])]
    IN  CASE last.kind = "error" -> last.value
          [] last.kind = "fallback" ->
                _get_timeout_result([parser_attempts |-> 0, job_url_used |-> <<>>,
                                     total_time_ms |-> 0]).ret
          [] last.kind = "final" -> strip_debug(last.value)

\* the record execution p is about to strip holds its own _debug: the
\* reference to its dict, or a copy of that dict's entries
HoldsOwnDebug(p) ==
    LET held == heap[unstripped[p]].v["_debug"]
        own == heap[_debug[p]].v
    IN  IF held.t = "ref" THEN held.at = _debug[p]
        ELSE \A k \in DOMAIN own : k \in DOMAIN held.v /\ held.v[k] = own[k]

\* C27: executions of run_pipeline side by side are isolated.  In every
\* interleaving of their steps an object is written only by the execution
\* whose call made it, so the registry, which no execution made, is never
\* written and keeps its content; the record an execution strips holds that
\* execution's own _debug; and what an execution returns is the record it
\* returns when run alone.
C27_Isolated ==
    /\ \A a \in DOMAIN heap : heap[a].writers \subseteq {a.by} \cap Execs
    /\ heap[RegistryAt].v = RegistryA
    /\ \A p \in Execs : pc[p] = "strip" => HoldsOwnDebug(p)
    /\ \A p \in Execs : pc[p] = "returned" => ret[p] = Alone(p)

\* two executions have both attached their _debug to a canned fallback
\* record, and neither has stripped it yet
C27_Witness ==
    \E p, q \in Execs :
        /\ p # q
        /\ pc[p] = "strip" /\ pc[q] = "strip"
        /\ unstripped[p].obj = "fallback" /\ unstripped[q].obj = "fallback"
        /\ heap[_debug[p]].v # heap[_debug[q]].v

(***************************************************************************)
(* Claims on the records of the stages                                     *)
(***************************************************************************)
\* C31: every ResumeRecord that passes validation in parse_resume has a
\* years_of_experience that is an integer (no bool, no str, no None)
\* greater than or equal to 0, and an answer whose years_of_experience is
\* negative or not an integer is a schema violation.
C31_YearsNotNegative ==
    Called("parse_resume") =>
        LET years == Get(fn.x.v, "years_of_experience", IntV(0))
            is_count == years.t = "int" /\ years.v >= 0
        IN  /\ fn.y.status = "ok" =>
                  /\ fn.y.value["years_of_experience"].t = "int"
                  /\ fn.y.value["years_of_experience"].v >= 0
            /\ ~is_count => fn.y.status = "invalid"

(***************************************************************************)
(* Claims on the fuzzy match                                               *)
(***************************************************************************)
\* the positions of the non-default categories of a registry
NonDefault(registry) == {i \in DOMAIN registry : registry[i].key # Default}

\* the non-default categories whose name is a word of the query
NamedInQuery(query, registry) ==
    {i \in NonDefault(registry) : registry[i].key \in Words(query)}

\* the first position of a non-empty set of positions
First(positions) == CHOOSE i \in positions : \A j \in positions : i <= j

\* C32: in the fuzzy match, for every non-default category, whatever its
\* tags (an empty tag list included): when the category's name is one of
\* the words of the query, a category is selected at once, the first such
\* category in registry order, and not a category that matches through its
\* tags or the semantic bonus only.
C32_NameSelectsAtOnce ==
    Called("_fuzzy_match_tags") =>
        LET named == NamedInQuery(fn.x.query, fn.x.job_map)
        IN  named # {} =>
                /\ fn.y.found
                /\ fn.y.category = fn.x.job_map[First(named)].key

\* the words of the tags of a category
TagWords(tags) == UNION {Words(StrLower(tags[i])) : i \in DOMAIN tags}

\* the score the fuzzy match is to give a category: the query words among
\* the words of its tags, plus 2 for each semantic trigger word in the query
\* whose list holds the category
ScoreOf(query, entry) ==
    Cardinality(Words(query) \cap TagWords(entry.tags))
    + 2 * Cardinality({m \in {<<Developer, {Python, Backend}>>, <<Engineer, {Data, Backend}>>,
                              <<Analyst, {Data}>>, <<Programmer, {Python, Backend}>>} :
                          m[1] \in Words(query) /\ entry.key \in m[2]})

\* C33: when no category name is a word of the query, the fuzzy match
\* selects the non-default category with the highest score, the first in
\* registry order among those with that score, and selects a category only
\* when that score is greater than 0.
C33_HighestScoreWins ==
    Called("_fuzzy_match_tags") /\ NamedInQuery(fn.x.query, fn.x.job_map) = {} =>
        LET registry == fn.x.job_map
            best == {i \in NonDefault(registry) :
                        /\ ScoreOf(fn.x.query, registry[i]) > 0
                        /\ \A j \in NonDefault(registry) :
                              ScoreOf(fn.x.query, registry[j]) <= ScoreOf(fn.x.query, registry[i])}
        IN  IF best = {} THEN ~fn.y.found
            ELSE fn.y.found /\ fn.y.category = registry[First(best)].key

(***************************************************************************)
(* Claims on analyze_and_write                                             *)
(***************************************************************************)
\* analyze_and_write made its last text generation and run_pipeline returned
Analysed == pc = "returned" /\ an # Null /\ "recruiter_message" \in DOMAIN an

\* the record analyze_and_write assembled in the execution
Assembled ==
    AssembledRecord(an, job_json, _validate_summary(an["optimized_summary"]).value,
                    _validate_cover_letter_word_count(an["cover_letter"]),
                    _validate_recruiter_message(an["recruiter_message"]).value)

\* the assembled record failed the FinalRecord schema check
SchemaCheckFailed == Analysed /\ ~validate_final_output_schema(Assembled)

\* C34: when the record assembled by analyze_and_write fails the
\* FinalRecord schema check, analyze_and_write does not raise; the record it
\* returns keeps the computed match_score and the job's job_title, company
\* and job_url, has an empty score_breakdown, three empty texts and three
\* empty lists, and its _debug is empty, so that before stripping it holds
\* the entries of the orchestrator's _debug only.
C34_MinimalRecord ==
    SchemaCheckFailed =>
        /\ \A i \in DOMAIN hist : ~IsRaiseOf(hist[i], "analyze_and_write")
        /\ DOMAIN unstripped = DOMAIN Assembled
        /\ unstripped["match_score"] = IntV(an.final_score)
        /\ unstripped["job_title"] = Get(job_json, "job_title", StrV(<<>>))
        /\ unstripped["company"] = Get(job_json, "company", StrV(<<>>))
        /\ unstripped["job_url"] = Get(job_json, "job_url", StrV(<<>>))
        /\ \A k \in {"score_breakdown", "optimized_summary", "cover_letter",
                     "recruiter_message"} : unstripped[k] = StrV(<<>>)
        /\ \A k \in {"missing_skills", "strengths", "how_to_improve"} :
              unstripped[k] = ListV(<<>>)
        /\ unstripped["_debug"] = DictV(_debug)
        /\ ret = [k \in DOMAIN unstripped \ {"_debug"} |-> unstripped[k]]

\* the text delegate answered None for the cover letter
C34_Witness ==
    /\ SchemaCheckFailed
    /\ an["cover_letter"] = Null
    /\ an.final_score > 0

(***************************************************************************)
(* Claims on the scores                                                    *)
(***************************************************************************)
\* the answer of the delegate is a string with a digit in it
HasDigit(answer) ==
    /\ answer.kind = "value" /\ IsStr(answer.value)
    /\ \E i \in DOMAIN answer.value.v : IsDigit(answer.value.v[i])

\* the first run of digits of s: from the first digit up to the character
\* before the next one that is no digit
FirstRun(s) ==
    LET first == CHOOSE i \in DOMAIN s :
                     IsDigit(s[i]) /\ \A j \in 1..(i - 1) : ~IsDigit(s[j])
        stop == {j \in first..Len(s) : ~IsDigit(s[j])}
    IN  SubSeq(s, first, IF stop = {} THEN Len(s)
                         ELSE (CHOOSE j \in stop : \A k \in stop : j <= k) - 1)

\* a run of digits without its leading zeros
Significant(run) ==
    LET nonzero == {i \in DOMAIN run : run[i] # "0"}
    IN  IF nonzero = {} THEN <<>>
        ELSE SubSeq(run, CHOOSE i \in nonzero : \A j \in nonzero : i <= j, Len(run))

\* C35: the experience score is the first run of digits in the delegate's
\* answer, clamped into 0..10: for every answer with a digit in it the call
\* returns an integer between 0 and 10, the number the run denotes when
\* that is at most 10 and 10 when it is 11 or more; an answer without a
\* digit (or no answer) raises an error and yields no score.
C35_ExperienceScore ==
    Called("llm_call_integer") =>
        IF HasDigit(fn.x)
        THEN LET digits == Significant(FirstRun(fn.x.value.v))
             IN  /\ fn.y.status = "ok"
                 /\ fn.y.value \in 0..10
                 /\ Len(digits) = 0 => fn.y.value = 0
                 /\ Len(digits) = 1 => DigitChars[fn.y.value + 1] = digits[1]
                 /\ Len(digits) >= 2 => fn.y.value = 10
        ELSE fn.y.status = "raise"

\* the answer names 12 out of 10: the score is 10
C35_Witness ==
    /\ Called("llm_call_integer")
    /\ HasDigit(fn.x)
    /\ FirstRun(fn.x.value.v) = <<"1", "2">>
    /\ fn.y.value = 10

\* C37: normalize_skills is idempotent: for every skill list L, normalizing
\* normalize_skills(L) again gives normalize_skills(L), so that the analyzer,
\* which normalizes the skills of a parsed ResumeRecord again, compares the
\* skills the parser stored.
C37_NormalizeIdempotent ==
    Called("normalize_skills") => normalize_skills(fn.y.v) = fn.y.v

\* the arguments at least as good as x: an overlap, an experience score
\* and an edu_match that are not lower
NotLower(x) ==
    {z \in FinalScoreArgs :
        /\ z.overlap.num <= z.overlap.den
        /\ x.overlap.num * z.overlap.den <= z.overlap.num * x.overlap.den
        /\ x.experience_score <= z.experience_score
        /\ x.edu_match => z.edu_match}

\* C38: the match_score is never below 12: for every skill overlap in
\* [0, 1], every experience score in 0..10 and every edu_match, the value
\* before the clamp lies between 12 and 100, so that the clamp to 0..100
\* changes nothing, and the score does not decrease when the overlap or
\* the experience score grows or edu_match turns from false to true.
C38_ScoreAtLeastTwelve ==
    Called("_calculate_final_score") =>
        /\ fn.y >= 12 /\ fn.y <= 100
        /\ ScoreTimes10n(fn.x) >= 120 * fn.x.overlap.den
        /\ ScoreTimes10n(fn.x) <= 1000 * fn.x.overlap.den
        /\ \A z \in NotLower(fn.x) :
              _calculate_final_score(z.overlap, z.experience_score, z.edu_match) >= fn.y

\* no overlap, no experience, no degree: the score is 12
C38_Witness ==
    /\ Called("_calculate_final_score")
    /\ fn.x.overlap.num = 0 /\ fn.x.experience_score = 0 /\ ~fn.x.edu_match
    /\ fn.y = 12

(***************************************************************************)
(* Claims on the resources of one execution                                *)
(***************************************************************************)

Fetches == SelectSeq(hist, IsFetch)

FetchesOf(n) == SelectSeq(hist, LAMBDA v : IsFetch(v) /\ v.n = n)

\* the delegate calls of the log stay within their numbers
CallsBounded ==
    /\ Len(ParseCalls) <= 2
    /\ Len(Fetches) <= 5
    /\ Len(FetchesOf(1)) <= 3
    /\ Len(FetchesOf(2)) <= 2
    /\ \A i \in DOMAIN hist :
          IsFetch(hist[i]) /\ hist[i].n = 2 =>
              /\ hist[i].arg = DEFAULT_JOB_URL
              /\ \E j \in 1..(i - 1) :
                    /\ IsFetch(hist[j]) /\ hist[j].n = 1 /\ hist[j].at = "default"
                    /\ hist[j].arg = DEFAULT_JOB_URL /\ hist[j].out = "raise"

\* C39: one run_pipeline execution makes a bounded number of delegate calls
\* and then terminates: at most 2 structured-extraction calls and at most 5
\* page fetches (3 in the first extract_job call and 2 more on the default
\* URL in the second), and the second extract_job call happens only after
\* the default URL has already failed once.
C39_BoundedCalls == [](CallsBounded) /\ <>(~Running)

\* five fetches failed, the last two of the second extract_job call, and
\* the execution is over
C39_Witness ==
    /\ Returned
    /\ Len(Fetches) = 5
    /\ Len(FetchesOf(2)) = 2
    /\ Fetches[5].out = "raise"

(***************************************************************************)
(* Claims on the marks of the fallback record                              *)
(***************************************************************************)

\* the marks of the fallback record before strip_debug
FallbackMarks == unstripped["_debug"].v

Marked(key) == key \in DOMAIN FallbackMarks /\ FallbackMarks[key] = TRUE

\* what led to the fallback
BudgetCheckFailed == IsCheck(hist[Len(hist)]) /\ ~hist[Len(hist)].ok

ExtractionGaveUp == IsRaiseOf(hist[Len(hist)], "extract_job")

AnalysisFailed == IsRaiseOf(hist[Len(hist)], "analyze_and_write")

\* C40: before _debug is stripped, the fallback record marks the condition
\* that led to it, and the three conditions can be told apart: the timeout
\* mark is set only when the budget check of a stage boundary failed, a
\* failure of ANALYZE is marked as an execution error and not as a timeout,
\* and a complete failure of the extraction is marked as an extraction
\* failure.
C40_MarksTellConditionsApart ==
    FellBack =>
        /\ Marked("timeout_exceeded") => BudgetCheckFailed
        /\ AnalysisFailed =>
              \E key \in DOMAIN FallbackMarks \ {"timeout_exceeded", "extraction_failed"} :
                  Marked(key)
        /\ ExtractionGaveUp <=> Marked("extraction_failed")

(***************************************************************************)
(* Claims on the records a stage is given                                  *)
(***************************************************************************)
\* analyze_and_write was called: fn.x holds the objects as they were then
AnalyzeCalled == fn.f = "analyze_and_write"

\* the objects the record at a holds by reference
HeldBy(a) == {heap[a].v[k].at : k \in {f \in DOMAIN heap[a].v : IsRef(heap[a].v[f])}}

\* the registry is as it was loaded, the records given to analyze_and_write
\* are as they were at the call, and the record it returned is none of the
\* objects it was given and holds none of them
InputsKept ==
    /\ heap[JobMapAt] = [v |-> job_map_arg, writers |-> {}]
    /\ AnalyzeCalled =>
          /\ \A a \in DOMAIN fn.x : heap[a] = fn.x[a]
          /\ fn.done =>
                /\ fn.y \notin DOMAIN fn.x
                /\ HeldBy(fn.y) \cap DOMAIN fn.x = {}
                /\ \A k \in {"missing_skills", "strengths", "how_to_improve", "_debug"} :
                      IsRef(heap[fn.y].v[k])

\* C36: no stage mutates its input record: when analyze_and_write has
\* returned or raised, the resume and the job record equal their values
\* before the call, and the record returned is a newly built one that
\* shares no mutable field with them; select_job and extract_job leave the
\* registry and their URL arguments unchanged.
C36_StagesKeepTheirInputs ==
    /\ [](InputsKept)
    /\ [][/\ job_query' = job_query
          /\ pc # "select" => url_pair' = url_pair]_vars

\* analyze_and_write returned a record with missing skills, of a job that
\* has skills
C36_Witness ==
    /\ AnalyzeCalled /\ fn.done /\ pc = "returned"
    /\ heap[MissingAt].v.v # <<>>
    /\ heap[FieldAt(Caller, "job", "skills")].v.v # <<>>
    /\ MissingAt \in HeldBy(fn.y)

\* analyze_and_write raised after it had made its lists
C36_WitnessRaised ==
    /\ AnalyzeCalled /\ ~fn.done /\ pc = "returned"
    /\ MissingAt \in DOMAIN heap

\* analyze_and_write returned the minimal record
C36_WitnessMinimal ==
    /\ AnalyzeCalled /\ fn.done /\ pc = "returned"
    /\ fn.y = FrameMinimalAt
    /\ MissingAt \in DOMAIN heap /\ MissingAt \notin HeldBy(fn.y)

====
